---- MODULE Spec2Model ----
(***************************************************************************)
(* Data Alchemist: the validation engine (src/lib/validators.ts), the page *)
(* state that feeds it (src/app/page.tsx) and the rule builder             *)
(* (src/components/RuleBuilder.tsx).                                       *)
(***************************************************************************)
EXTENDS Integers, Sequences, FiniteSets, TLC

VARIABLES
    appData,               \* page.tsx useState: [clients, workers, tasks, rules]
    validationErrors,      \* processedData.validationErrors of the last render
    crashed,               \* a render threw (validateAllData threw inside useMemo)
    isLoading,             \* page.tsx isLoading: a file is being parsed
    pendingUpload,         \* handleFileUpload awaiting parseFile: <<>> or <<[entityType, file]>>
    fileName,              \* FileUploadCard fileName is set, per entity type
    isAiLoading,           \* page.tsx isAiLoading
    aiRun,                 \* runAiAssistant awaiting fetch: "none" or its mode
    errorsToFix,           \* runAiAssistant: the issues put into the correction prompt
    ruleSuggestions,       \* page.tsx ruleSuggestions
    correctionSuggestions, \* page.tsx correctionSuggestions
    rbLoading,             \* RuleBuilder isLoading
    aiRuleRequests,        \* handleAiRuleCreation calls awaiting fetch
    now,                   \* the last value Date.now() returned
    data,                  \* validator harness: the argument of validateAllData
    result,                \* validator harness: [threw, errors] of the call
    pc                     \* validator harness: "idle" before the call, "done" after

appVars == <<appData, validationErrors, crashed, isLoading, pendingUpload, fileName,
             isAiLoading, aiRun, errorsToFix, ruleSuggestions, correctionSuggestions,
             rbLoading, aiRuleRequests, now>>
harnessVars == <<data, result, pc>>
vars == <<appVars, harnessVars>>

(***************************************************************************)
(* Bounds of the model.                                                    *)
(***************************************************************************)
MaxRows == 2       \* rows per entity table of the validator harness
MaxHarnessRules == 2 \* rules per rule list of the validator harness
MaxRules == 2      \* rules in the page's rule list
MaxNow == 1        \* distinct later values of Date.now()
MaxInFlight == 1   \* AI rule creations awaiting their response

(***************************************************************************)
(* JavaScript values of the numeric cells.  sheet_to_json is called with   *)
(* raw: false, so an uploaded cell is a string; an inline edit stores a    *)
(* number.  Comparisons coerce with ToNumber.                              *)
(***************************************************************************)
Num(n) == [t |-> "number", n |-> n, s |-> ""]
Str(s) == [t |-> "string", n |-> 0, s |-> s]

Digits == <<"0", "1", "2", "3", "4", "5", "6", "7", "8", "9">>

\* ToNumber of a string: a decimal digit is its number, "" is 0, other text is NaN
IsNumericText(s) == s = "" \/ \E d \in 1..10 : Digits[d] = s
TextToNumber(s) == IF s = "" THEN 0 ELSE (CHOOSE d \in 1..10 : Digits[d] = s) - 1

IsNaN(v) == v.t = "string" /\ ~IsNumericText(v.s)
ToNumber(v) == IF v.t = "number" THEN v.n ELSE TextToNumber(v.s)

\* a < b and a > b of JavaScript: false when either side is NaN
JsLt(v, k) == ~IsNaN(v) /\ ToNumber(v) < k
JsGt(v, k) == ~IsNaN(v) /\ ToNumber(v) > k

\* String(n) for the integers of the model, as text pieces
RECURSIVE NumStr(_)
NumStr(n) ==
    IF n < 0 THEN <<"-">> \o NumStr(0 - n)
    ELSE IF n < 10 THEN <<Digits[n + 1]>>
    ELSE NumStr(n \div 10) \o <<Digits[(n % 10) + 1]>>

\* `${v}` in a template literal
JsToString(v) == IF v.t = "number" THEN NumStr(v.n) ELSE <<v.s>>

\* array.join(', ') as text pieces
RECURSIVE Join(_)
Join(pieces) ==
    IF pieces = <<>> THEN <<>>
    ELSE IF Len(pieces) = 1 THEN pieces[1]
    ELSE pieces[1] \o <<", ">> \o Join(Tail(pieces))

RECURSIVE ConcatAll(_)
ConcatAll(ss) == IF ss = <<>> THEN <<>> ELSE Head(ss) \o ConcatAll(Tail(ss))

Range(s) == {s[i] : i \in DOMAIN s}

MinPriority == 1
MaxPriority == 5
MinDuration == 1

(***************************************************************************)
(* ValidationError                                                         *)
(***************************************************************************)
Issue(rowId, fld, message, severity) ==
    [rowId |-> rowId, field |-> fld, message |-> message, severity |-> severity]

(***************************************************************************)
(* validateClients                                                         *)
(***************************************************************************)
\* faulty variant: the upper limit itself is rejected (>= instead of >)
clientPriorityIssuesUpperLimitRejected(client) ==
    IF JsLt(client.PriorityLevel, MinPriority) \/ ~JsLt(client.PriorityLevel, MaxPriority)
    THEN <<Issue(client.ClientID, "PriorityLevel",
                 <<"PriorityLevel must be between 1 and 5, but is ">>
                     \o JsToString(client.PriorityLevel) \o <<".">>,
                 "error")>>
    ELSE <<>>

clientPriorityIssues(client) ==
    IF JsLt(client.PriorityLevel, MinPriority) \/ JsGt(client.PriorityLevel, MaxPriority)
    THEN <<Issue(client.ClientID, "PriorityLevel",
                 <<"PriorityLevel must be between 1 and 5, but is ">>
                     \o JsToString(client.PriorityLevel) \o <<".">>,
                 "error")>>
    ELSE <<>>

clientAttributesIssues(client) ==
    IF client.AttributesJSON.error
    THEN <<Issue(client.ClientID, "AttributesJSON",
                 <<"The JSON format is invalid.">>, "error")>>
    ELSE <<>>

\* faulty variant: an unknown requested task is an Error
clientRequestedIssuesAsError(client, taskIds) ==
    ConcatAll([i \in 1..Len(client.RequestedTaskIDs) |->
        LET reqTaskId == client.RequestedTaskIDs[i] IN
        IF reqTaskId # "" /\ reqTaskId \notin taskIds
        THEN <<Issue(client.ClientID, "RequestedTaskIDs",
                     <<"Requested TaskID \"", reqTaskId, "\" does not exist.">>,
                     "error")>>
        ELSE <<>>])

clientRequestedIssues(client, taskIds) ==
    ConcatAll([i \in 1..Len(client.RequestedTaskIDs) |->
        LET reqTaskId == client.RequestedTaskIDs[i] IN
        IF reqTaskId # "" /\ reqTaskId \notin taskIds
        THEN <<Issue(client.ClientID, "RequestedTaskIDs",
                     <<"Requested TaskID \"", reqTaskId, "\" does not exist.">>,
                     "warning")>>
        ELSE <<>>])

validateClients(clients, tasks) ==
    LET taskIds == {tasks[i].TaskID : i \in DOMAIN tasks} IN
    ConcatAll([i \in 1..Len(clients) |->
        clientPriorityIssues(clients[i])
            \o clientAttributesIssues(clients[i])
            \o clientRequestedIssues(clients[i], taskIds)])

(***************************************************************************)
(* validateWorkers                                                         *)
(***************************************************************************)
\* faulty variant: an empty WorkerName is reported as a warning only
workerNameIssuesAsWarning(worker) ==
    IF worker.WorkerName = ""
    THEN <<Issue(worker.WorkerID, "WorkerName",
                 <<"WorkerName cannot be empty.">>, "warning")>>
    ELSE <<>>

workerNameIssues(worker) ==
    IF worker.WorkerName = ""
    THEN <<Issue(worker.WorkerID, "WorkerName",
                 <<"WorkerName cannot be empty.">>, "error")>>
    ELSE <<>>

\* worker.Skills of a row parsed from a file without a Skills column is
\* undefined: falsy in validateWorkers, no skill in validateSkillCoverage
skillsOrNone(worker) == IF "Skills" \in DOMAIN worker THEN worker.Skills ELSE <<>>

workerSkillsIssues(worker) ==
    IF Len(skillsOrNone(worker)) = 0
    THEN <<Issue(worker.WorkerID, "Skills",
                 <<"Worker must have at least one skill.">>, "warning")>>
    ELSE <<>>

validateWorkers(workers) ==
    ConcatAll([i \in 1..Len(workers) |->
        workerNameIssues(workers[i]) \o workerSkillsIssues(workers[i])])

(***************************************************************************)
(* validateTasks                                                           *)
(***************************************************************************)
validateTasks(tasks) ==
    ConcatAll([i \in 1..Len(tasks) |->
        IF JsLt(tasks[i].Duration, MinDuration)
        THEN <<Issue(tasks[i].TaskID, "Duration",
                     <<"Duration must be at least 1, but is ">>
                         \o JsToString(tasks[i].Duration) \o <<".">>,
                     "error")>>
        ELSE <<>>])

(***************************************************************************)
(* validateSkillCoverage                                                   *)
(***************************************************************************)
\* faulty variant: no short-circuit on an empty table
validateSkillCoverageOfEmptyTables(tasks, workers) ==
    LET allWorkerSkills == UNION {Range(skillsOrNone(workers[i])) : i \in DOMAIN workers} IN
    ConcatAll([i \in 1..Len(tasks) |->
        ConcatAll([j \in 1..Len(tasks[i].RequiredSkills) |->
            LET requiredSkill == tasks[i].RequiredSkills[j] IN
            IF requiredSkill # "" /\ requiredSkill \notin allWorkerSkills
            THEN <<Issue(tasks[i].TaskID, "RequiredSkills",
                         <<"No worker has the required skill: \"", requiredSkill, "\".">>,
                         "error")>>
            ELSE <<>>])])

validateSkillCoverage(tasks, workers) ==
    IF Len(workers) = 0 \/ Len(tasks) = 0 THEN <<>>
    ELSE
        LET allWorkerSkills == UNION {Range(skillsOrNone(workers[i])) : i \in DOMAIN workers} IN
        ConcatAll([i \in 1..Len(tasks) |->
            ConcatAll([j \in 1..Len(tasks[i].RequiredSkills) |->
                LET requiredSkill == tasks[i].RequiredSkills[j] IN
                IF requiredSkill # "" /\ requiredSkill \notin allWorkerSkills
                THEN <<Issue(tasks[i].TaskID, "RequiredSkills",
                             <<"No worker has the required skill: \"", requiredSkill, "\".">>,
                             "error")>>
                ELSE <<>>])])

(***************************************************************************)
(* validateDuplicateIds: one Set per table, filled in table order          *)
(***************************************************************************)
duplicateIssues(ids, fld) ==
    ConcatAll([i \in 1..Len(ids) |->
        IF \E j \in 1..(i - 1) : ids[j] = ids[i]
        THEN <<Issue(ids[i], fld, <<"Duplicate ", fld, " \"", ids[i], "\" found.">>, "error")>>
        ELSE <<>>])

\* faulty variant: one Set of seen ids shared by the three tables
validateDuplicateIdsOneSet(d) ==
    LET clientIds == [i \in 1..Len(d.clients) |-> d.clients[i].ClientID]
        workerIds == [i \in 1..Len(d.workers) |-> d.workers[i].WorkerID]
        taskIds == [i \in 1..Len(d.tasks) |-> d.tasks[i].TaskID]
        flagged(before, ids, fld) ==
            ConcatAll([i \in 1..Len(ids) |->
                IF ids[i] \in Range(before) \/ \E j \in 1..(i - 1) : ids[j] = ids[i]
                THEN <<Issue(ids[i], fld, <<"Duplicate ", fld, " \"", ids[i], "\" found.">>,
                             "error")>>
                ELSE <<>>])
    IN  flagged(<<>>, clientIds, "ClientID")
            \o flagged(clientIds, workerIds, "WorkerID")
            \o flagged(clientIds \o workerIds, taskIds, "TaskID")

validateDuplicateIds(d) ==
    duplicateIssues([i \in 1..Len(d.clients) |-> d.clients[i].ClientID], "ClientID")
        \o duplicateIssues([i \in 1..Len(d.workers) |-> d.workers[i].WorkerID], "WorkerID")
        \o duplicateIssues([i \in 1..Len(d.tasks) |-> d.tasks[i].TaskID], "TaskID")

(***************************************************************************)
(* Business rules.  A rule is a JavaScript object; a property it lacks is  *)
(* undefined.  An absent string is modelled as "" and an absent number as  *)
(* 0 (the code reads both only through `||` and truthiness tests, where    *)
(* undefined, "" and 0 behave alike; no TaskID of the model is "").  The   *)
(* array properties are in `present` when the object has them.            *)
(***************************************************************************)
Has(rule, prop) == prop \in rule.present

\* --- Co-run Rule Validation ---
coRunTaskIdsPresent(rule) == Has(rule, "taskIds") \/ Has(rule, "tasks")
coRunTaskIds(rule) == IF Has(rule, "taskIds") THEN rule.taskIds ELSE rule.tasks

\* faulty variant: warns whenever the client requests any of the tasks
coRunIssuesWhenAnyRequested(rule, clients) ==
    IF rule.type = "coRun" /\ coRunTaskIdsPresent(rule)
    THEN LET taskIds == coRunTaskIds(rule) IN
         ConcatAll([i \in 1..Len(clients) |->
            LET requestedTasks == Range(clients[i].RequestedTaskIDs)
                intersection == SelectSeq(taskIds, LAMBDA taskId : taskId \in requestedTasks)
            IN  IF Len(intersection) > 0
                THEN <<Issue(clients[i].ClientID, "RequestedTaskIDs",
                             <<"Rule Violation: Client requested some, but not all, required co-run tasks: ">>
                                 \o Join([k \in 1..Len(taskIds) |-> <<taskIds[k]>>]) \o <<".">>,
                             "warning")>>
                ELSE <<>>])
    ELSE <<>>

coRunIssues(rule, clients) ==
    IF rule.type = "coRun" /\ coRunTaskIdsPresent(rule)
    THEN LET taskIds == coRunTaskIds(rule) IN
         ConcatAll([i \in 1..Len(clients) |->
            LET requestedTasks == Range(clients[i].RequestedTaskIDs)
                intersection == SelectSeq(taskIds, LAMBDA taskId : taskId \in requestedTasks)
            IN  IF Len(intersection) > 0 /\ Len(intersection) < Len(taskIds)
                THEN <<Issue(clients[i].ClientID, "RequestedTaskIDs",
                             <<"Rule Violation: Client requested some, but not all, required co-run tasks: ">>
                                 \o Join([k \in 1..Len(taskIds) |-> <<taskIds[k]>>]) \o <<".">>,
                             "warning")>>
                ELSE <<>>])
    ELSE <<>>

\* --- Slot Restriction Rule Validation ---
AvailableSlotsOf(entity) ==
    IF "AvailableSlots" \in DOMAIN entity THEN Range(entity.AvailableSlots) ELSE {}

RECURSIVE CommonSlots(_)
CommonSlots(slotSets) ==
    IF Len(slotSets) = 1 THEN slotSets[1]
    ELSE CommonSlots(<<slotSets[1] \cap slotSets[2]>> \o SubSeq(slotSets, 3, Len(slotSets)))

\* faulty variant: a group of one member is checked as well
slotRestrictionIssuesOfLoneMember(rule, clients, workers) ==
    IF rule.type \in {"slotRestriction", "slot"}
    THEN LET targetGroup == IF rule.targetGroup # "" THEN rule.targetGroup ELSE "WorkerGroup"
             groupTag == IF rule.groupTag # "" THEN rule.groupTag ELSE rule.group
             minCommonSlots == IF rule.minCommonSlots # 0 THEN rule.minCommonSlots ELSE rule.minCount
         IN
         IF groupTag # "" /\ minCommonSlots # 0
         THEN LET targetEntities ==
                      IF targetGroup = "ClientGroup"
                      THEN SelectSeq(clients, LAMBDA c : c.GroupTag = groupTag)
                      ELSE SelectSeq(workers, LAMBDA w : w.WorkerGroup = groupTag)
              IN
              IF Len(targetEntities) >= 1
              THEN LET allSlots == [i \in 1..Len(targetEntities) |-> AvailableSlotsOf(targetEntities[i])]
                       commonSlots == CommonSlots(allSlots)
                   IN
                   IF Cardinality(commonSlots) < minCommonSlots
                   THEN [i \in 1..Len(targetEntities) |->
                            Issue(targetEntities[i].id, "AvailableSlots",
                                  <<"Rule Violation: Group '", groupTag, "' has only ">>
                                      \o NumStr(Cardinality(commonSlots))
                                      \o <<" common slots, but rule requires ">>
                                      \o NumStr(minCommonSlots) \o <<".">>,
                                  "warning")]
                   ELSE <<>>
              ELSE <<>>
         ELSE <<>>
    ELSE <<>>

slotRestrictionIssues(rule, clients, workers) ==
    IF rule.type \in {"slotRestriction", "slot"}
    THEN LET targetGroup == IF rule.targetGroup # "" THEN rule.targetGroup ELSE "WorkerGroup"
             groupTag == IF rule.groupTag # "" THEN rule.groupTag ELSE rule.group
             minCommonSlots == IF rule.minCommonSlots # 0 THEN rule.minCommonSlots ELSE rule.minCount
         IN
         IF groupTag # "" /\ minCommonSlots # 0
         THEN LET targetEntities ==
                      IF targetGroup = "ClientGroup"
                      THEN SelectSeq(clients, LAMBDA c : c.GroupTag = groupTag)
                      ELSE SelectSeq(workers, LAMBDA w : w.WorkerGroup = groupTag)
              IN
              IF Len(targetEntities) >= 2
              THEN LET allSlots == [i \in 1..Len(targetEntities) |-> AvailableSlotsOf(targetEntities[i])]
                       commonSlots == CommonSlots(allSlots)
                   IN
                   IF Cardinality(commonSlots) < minCommonSlots
                   THEN [i \in 1..Len(targetEntities) |->
                            Issue(targetEntities[i].id, "AvailableSlots",
                                  <<"Rule Violation: Group '", groupTag, "' has only ">>
                                      \o NumStr(Cardinality(commonSlots))
                                      \o <<" common slots, but rule requires ">>
                                      \o NumStr(minCommonSlots) \o <<".">>,
                                  "warning")]
                   ELSE <<>>
              ELSE <<>>
         ELSE <<>>
    ELSE <<>>

\* faulty variant: the console.warn of the load-limit branch is an issue
loadLimitIssuesWarningOfEmptyGroup(rule, workers) ==
    IF /\ rule.type = "loadLimit" /\ rule.workerGroup # ""
       /\ \A i \in 1..Len(workers) : workers[i].WorkerGroup # rule.workerGroup
    THEN <<Issue(rule.workerGroup, "WorkerGroup",
                 <<"LoadLimit rule for group '", rule.workerGroup,
                   "' targets no existing workers.">>, "warning")>>
    ELSE <<>>

\* --- Load Limit Rule Validation: console.warn only ---
loadLimitIssues(rule, workers) == <<>>

\* --- Phase Window Rule Validation ---
\* tasks.find: the first task with the rule's taskId, <<>> (undefined) or <<task>>
phaseWindowTask(rule, tasks) ==
    LET hits == SelectSeq(tasks, LAMBDA t : t.TaskID = rule.taskId)
    IN  IF hits = <<>> THEN <<>> ELSE <<hits[1]>>

\* pw.allowedPhases.includes(p) on an undefined allowedPhases: TypeError
phaseWindowThrows(rule, tasks) ==
    /\ rule.type = "phaseWindow"
    /\ LET found == phaseWindowTask(rule, tasks) IN
       /\ found # <<>>
       /\ Len(found[1].PreferredPhases) > 0
       /\ ~Has(rule, "allowedPhases")

\* faulty variant: every preferred phase must be allowed (subset, not overlap)
phaseWindowIssuesUnlessAllAllowed(rule, tasks) ==
    IF rule.type = "phaseWindow"
    THEN LET found == phaseWindowTask(rule, tasks) IN
         IF found # <<>> /\ Len(found[1].PreferredPhases) > 0
         THEN LET task == found[1]
                  intersection == SelectSeq(task.PreferredPhases,
                                            LAMBDA p : p \in Range(rule.allowedPhases))
              IN  IF Len(intersection) < Len(task.PreferredPhases)
                  THEN <<Issue(task.TaskID, "PreferredPhases",
                               <<"Conflict: Task prefers [">>
                                   \o Join([k \in 1..Len(task.PreferredPhases) |->
                                              NumStr(task.PreferredPhases[k])])
                                   \o <<"] but rule restricts it to [">>
                                   \o Join([k \in 1..Len(rule.allowedPhases) |->
                                              NumStr(rule.allowedPhases[k])])
                                   \o <<"].">>,
                               "error")>>
                  ELSE <<>>
         ELSE <<>>
    ELSE <<>>

phaseWindowIssues(rule, tasks) ==
    IF rule.type = "phaseWindow"
    THEN LET found == phaseWindowTask(rule, tasks) IN
         IF found # <<>> /\ Len(found[1].PreferredPhases) > 0
         THEN LET task == found[1]
                  intersection == SelectSeq(task.PreferredPhases,
                                            LAMBDA p : p \in Range(rule.allowedPhases))
              IN  IF Len(intersection) = 0
                  THEN <<Issue(task.TaskID, "PreferredPhases",
                               <<"Conflict: Task prefers [">>
                                   \o Join([k \in 1..Len(task.PreferredPhases) |->
                                              NumStr(task.PreferredPhases[k])])
                                   \o <<"] but rule restricts it to [">>
                                   \o Join([k \in 1..Len(rule.allowedPhases) |->
                                              NumStr(rule.allowedPhases[k])])
                                   \o <<"].">>,
                               "error")>>
                  ELSE <<>>
         ELSE <<>>
    ELSE <<>>

ruleIssues(rule, d) ==
    coRunIssues(rule, d.clients)
        \o slotRestrictionIssues(rule, d.clients, d.workers)
        \o loadLimitIssues(rule, d.workers)
        \o phaseWindowIssues(rule, d.tasks)

\* rules.forEach: an exception in one rule's checks ends the whole call
validateRules(d) ==
    IF \E i \in 1..Len(d.rules) : phaseWindowThrows(d.rules[i], d.tasks)
    THEN [threw |-> TRUE, errors |-> <<>>]
    ELSE [threw |-> FALSE,
          errors |-> ConcatAll([i \in 1..Len(d.rules) |-> ruleIssues(d.rules[i], d)])]

(***************************************************************************)
(* validateAllData                                                         *)
(***************************************************************************)
\* faulty variant: the rule checks are pushed before the table checks
validateAllDataRulesFirst(d) ==
    LET ruleErrors == validateRules(d) IN
    IF ruleErrors.threw THEN [threw |-> TRUE, errors |-> <<>>]
    ELSE [threw |-> FALSE,
          errors |-> ruleErrors.errors
                         \o validateClients(d.clients, d.tasks)
                         \o validateWorkers(d.workers)
                         \o validateTasks(d.tasks)
                         \o validateSkillCoverage(d.tasks, d.workers)
                         \o validateDuplicateIds(d)]

validateAllData(d) ==
    LET ruleErrors == validateRules(d) IN
    IF ruleErrors.threw THEN [threw |-> TRUE, errors |-> <<>>]
    ELSE [threw |-> FALSE,
          errors |-> validateClients(d.clients, d.tasks)
                         \o validateWorkers(d.workers)
                         \o validateTasks(d.tasks)
                         \o validateSkillCoverage(d.tasks, d.workers)
                         \o validateDuplicateIds(d)
                         \o ruleErrors.errors]

(***************************************************************************)
(* Rows as parseFile returns them (id = ClientID || WorkerID || TaskID),   *)
(* and rule objects.                                                       *)
(***************************************************************************)
Client(cid, priority, requested, groupTag, jsonError) ==
    [id |-> cid, ClientID |-> cid, PriorityLevel |-> priority,
     RequestedTaskIDs |-> requested, GroupTag |-> groupTag,
     AttributesJSON |-> [error |-> jsonError]]

Worker(wid, name, skills, slots, group) ==
    [id |-> wid, WorkerID |-> wid, WorkerName |-> name, Skills |-> skills,
     AvailableSlots |-> slots, WorkerGroup |-> group]

Task(tid, duration, skills, phases) ==
    [id |-> tid, TaskID |-> tid, Duration |-> duration,
     RequiredSkills |-> skills, PreferredPhases |-> phases]

RuleId(prefix, t) == [prefix |-> prefix, t |-> t]

BlankRule(rid, type) ==
    [id |-> rid, type |-> type, present |-> {},
     taskIds |-> <<>>, tasks |-> <<>>,
     targetGroup |-> "", groupTag |-> "", group |-> "",
     minCommonSlots |-> 0, minCount |-> 0,
     workerGroup |-> "", maxSlotsPerPhase |-> 0,
     taskId |-> "", allowedPhases |-> <<>>]

CoRunRule(rid, taskIds) ==
    [BlankRule(rid, "coRun") EXCEPT !.present = {"taskIds"}, !.taskIds = taskIds]

SlotRestrictionRule(rid, targetGroup, groupTag, minCommonSlots) ==
    [BlankRule(rid, "slotRestriction") EXCEPT !.targetGroup = targetGroup,
        !.groupTag = groupTag, !.minCommonSlots = minCommonSlots]

LoadLimitRule(rid, workerGroup, maxSlotsPerPhase) ==
    [BlankRule(rid, "loadLimit") EXCEPT !.workerGroup = workerGroup,
        !.maxSlotsPerPhase = maxSlotsPerPhase]

PhaseWindowRule(rid, taskId, allowedPhases) ==
    [BlankRule(rid, "phaseWindow") EXCEPT !.present = {"allowedPhases"},
        !.taskId = taskId, !.allowedPhases = allowedPhases]

EntityTypes == {"clients", "workers", "tasks"}

initialAppData == [clients |-> <<>>, workers |-> <<>>, tasks |-> <<>>, rules |-> <<>>]

(***************************************************************************)
(* Validator harness: validateAllData applied once to a dataset drawn from *)
(* bounded sets of rows and rules.                                         *)
(***************************************************************************)
SeqsUpTo(S, n) == UNION {[1..k -> S] : k \in 0..n}

Ids == {"X1", "X2"}
PriorityCells == {Str("0"), Str("1"), Str("5"), Str("6"), Str("abc")}
DurationCells == {Str("0"), Str("1"), Str("abc")}

\* identifiers only: every row passes its own checks
IdClientRows == {Client(i, Str("3"), <<>>, "g1", FALSE) : i \in Ids}
IdWorkerRows == {Worker(i, "Ann", <<"s1">>, <<1>>, "g1") : i \in Ids}
IdTaskRows == {Task(i, Str("2"), <<>>, <<>>) : i \in Ids}

IdDatasets ==
    [clients : SeqsUpTo(IdClientRows, MaxRows), workers : SeqsUpTo(IdWorkerRows, MaxRows),
     tasks : SeqsUpTo(IdTaskRows, MaxRows), rules : {<<>>}]

\* clients: priority cells, requested tasks, attribute parse failures
PriorityClientRows == {Client(i, p, <<>>, "g1", FALSE) : i \in Ids, p \in PriorityCells}
RequestClientRows ==
    {Client("X1", Str("3"), r, "g1", e) :
        r \in {<<>>, <<"X1">>, <<"X1", "X2">>}, e \in BOOLEAN}

ClientDatasets ==
    [clients : SeqsUpTo(PriorityClientRows, MaxRows), workers : {<<>>},
     tasks : {<<>>}, rules : {<<>>}]
    \cup
    [clients : SeqsUpTo(RequestClientRows, MaxRows), workers : {<<>>},
     tasks : SeqsUpTo({Task("X1", Str("2"), <<>>, <<>>)}, MaxRows), rules : {<<>>}]

\* workers and tasks: names, skills, durations, skill coverage
SkillWorkerRows ==
    {Worker("X1", n, s, <<1>>, "g1") : n \in {"", "Ann"}, s \in {<<>>, <<"s1">>}}
SkillTaskRows ==
    {Task("X1", d, s, <<>>) : d \in DurationCells, s \in {<<>>, <<"s1">>}}

WorkerTaskDatasets ==
    [clients : {<<>>}, workers : SeqsUpTo(SkillWorkerRows, MaxRows),
     tasks : SeqsUpTo(SkillTaskRows, MaxRows), rules : {<<>>}]

\* rules, well-formed and not, over data that can violate them
HarnessRules ==
    { CoRunRule(RuleId("corun-", 0), <<"X1", "X2">>),
      BlankRule(RuleId("ai-", 0), "coRun"),
      SlotRestrictionRule(RuleId("slot-", 0), "WorkerGroup", "g1", 1),
      BlankRule(RuleId("ai-", 1), "slotRestriction"),
      PhaseWindowRule(RuleId("phase-", 0), "X1", <<3>>),
      BlankRule(RuleId("ai-", 2), "phaseWindow"),
      [BlankRule(RuleId("ai-", 3), "phaseWindow") EXCEPT !.taskId = "X1"],
      LoadLimitRule(RuleId("load-", 0), "g1", 2) }
PhaseTaskRows ==
    {Task("X1", Str("2"), <<>>, <<1>>), Task("X1", Str("2"), <<>>, <<3>>),
     Task("X2", Str("2"), <<>>, <<>>)}

RuleDatasets ==
    [clients : {<<>>, <<Client("X1", Str("3"), <<"X1">>, "g1", FALSE)>>},
     workers : {<<>>, <<Worker("X1", "Ann", <<"s1">>, <<1>>, "g1"),
                        Worker("X2", "Bob", <<"s1">>, <<2>>, "g1")>>},
     tasks : SeqsUpTo(PhaseTaskRows, MaxRows),
     rules : SeqsUpTo(HarnessRules, MaxHarnessRules)]

\* skill coverage: two skill tags, required once, twice or not at all
SkillTags == {"s1", "s2"}
CoverageWorkerRows == {Worker("X1", "Ann", s, <<1>>, "g1") : s \in {<<>>, <<"s1">>, <<"s2">>}}
CoverageTaskRows ==
    {Task(i, Str("2"), s, <<>>) :
        i \in Ids, s \in {<<>>, <<"s1">>, <<"s1", "s2">>, <<"s2", "s2">>}}

CoverageDatasets ==
    [clients : {<<>>}, workers : SeqsUpTo(CoverageWorkerRows, MaxRows),
     tasks : SeqsUpTo(CoverageTaskRows, MaxRows), rules : {<<>>}]

\* co-run rules over clients requesting none, some or all of the tasks
CoRunClientRows ==
    {Client(i, Str("3"), r, "g1", FALSE) : i \in Ids, r \in {<<>>, <<"X1">>, <<"X1", "X2">>}}
CoRunRules ==
    { CoRunRule(RuleId("corun-", 0), <<"X1", "X2">>),
      [BlankRule(RuleId("ai-", 0), "coRun") EXCEPT !.present = {"tasks"},
                                                 !.tasks = <<"X2", "X3">>],
      BlankRule(RuleId("ai-", 1), "coRun") }

CoRunDatasets ==
    [clients : SeqsUpTo(CoRunClientRows, MaxRows), workers : {<<>>}, tasks : {<<>>},
     rules : SeqsUpTo(CoRunRules, MaxHarnessRules)]

\* phase windows over tasks preferring no, one or two phases
PhaseWindowTaskRows ==
    {Task(i, Str("2"), <<>>, ph) : i \in Ids, ph \in {<<>>, <<1>>, <<1, 2>>}}
PhaseWindowRules ==
    { PhaseWindowRule(RuleId("phase-", 0), "X1", <<2, 3>>),
      PhaseWindowRule(RuleId("phase-", 1), "X2", <<3>>),
      PhaseWindowRule(RuleId("phase-", 2), "X3", <<1>>) }

PhaseDatasets ==
    [clients : {<<>>}, workers : {<<>>}, tasks : SeqsUpTo(PhaseWindowTaskRows, MaxRows),
     rules : SeqsUpTo(PhaseWindowRules, MaxHarnessRules)]

\* slot restrictions over groups of no, one or two members
SlotWorkerRows ==
    {Worker(m[1], "Ann", <<"s1">>, slots, m[2]) :
        m \in {<<"X1", "g1">>, <<"X2", "g1">>, <<"X2", "g2">>},
        slots \in {<<>>, <<1>>, <<1, 2>>}}
SlotRules ==
    { SlotRestrictionRule(RuleId("slot-", 0), "WorkerGroup", "g1", 1),
      SlotRestrictionRule(RuleId("slot-", 1), "WorkerGroup", "g2", 2),
      SlotRestrictionRule(RuleId("slot-", 2), "ClientGroup", "g3", 1) }

SlotDatasets ==
    [clients : {<<>>, <<Client("X1", Str("3"), <<>>, "g3", FALSE)>>,
                <<Client("X1", Str("3"), <<>>, "g3", FALSE),
                  Client("X2", Str("3"), <<>>, "g3", FALSE)>>},
     workers : SeqsUpTo(SlotWorkerRows, MaxRows), tasks : {<<>>},
     rules : SeqsUpTo(SlotRules, MaxHarnessRules)]

\* requests of known tasks, of an unknown task, twice or next to an empty
\* entry, with and without a task table
ReferenceClientRows ==
    {Client(i, Str("3"), r, "g1", FALSE) :
        i \in Ids,
        r \in {<<>>, <<"X1">>, <<"X3", "X3">>, <<"", "X3">>, <<"X1", "X3">>}}

ReferenceDatasets ==
    [clients : SeqsUpTo(ReferenceClientRows, MaxRows), workers : {<<>>},
     tasks : SeqsUpTo({Task("X1", Str("2"), <<>>, <<>>)}, MaxRows), rules : {<<>>}]

\* load-limit rules for a group with and without workers and a
\* pattern-match rule, next to rules that do report
InertRules ==
    { LoadLimitRule(RuleId("load-", 0), "g1", 2),
      LoadLimitRule(RuleId("load-", 1), "g9", 1),
      BlankRule(RuleId("ai-", 0), "patternMatch"),
      CoRunRule(RuleId("corun-", 0), <<"X1", "X2">>),
      [BlankRule(RuleId("ai-", 3), "phaseWindow") EXCEPT !.taskId = "X1"] }

InertRuleDatasets ==
    [clients : {<<Client("X1", Str("3"), <<"X1">>, "g1", FALSE)>>},
     workers : {<<>>, <<Worker("X1", "Ann", <<"s1">>, <<1>>, "g1")>>},
     tasks : {<<Task("X1", Str("2"), <<>>, <<>>)>>, <<Task("X1", Str("2"), <<>>, <<1>>)>>},
     rules : SeqsUpTo(InertRules, MaxHarnessRules)]

Datasets ==
    IdDatasets \cup ClientDatasets \cup WorkerTaskDatasets \cup CoverageDatasets
        \cup CoRunDatasets \cup PhaseDatasets \cup SlotDatasets \cup ReferenceDatasets
        \cup InertRuleDatasets
        \cup RuleDatasets

NoResult == [threw |-> FALSE, errors |-> <<>>]

InitHarness ==
    /\ data \in Datasets
    /\ result = NoResult
    /\ pc = "idle"

\* faulty variant: the pass writes the coerced PriorityLevel back into the rows
ValidatePassCoercingInPlace ==
    /\ pc = "idle"
    /\ result' = validateAllData(data)
    /\ pc' = "done"
    /\ data' = [data EXCEPT !.clients =
                   [i \in 1..Len(data.clients) |->
                       [data.clients[i] EXCEPT !.PriorityLevel = Num(ToNumber(@))]]]

\* one call of validateAllData(data); the call assigns nothing in its argument
ValidatePass ==
    /\ pc = "idle"
    /\ result' = validateAllData(data)
    /\ pc' = "done"
    /\ UNCHANGED data

(***************************************************************************)
(* page.tsx: state and render                                              *)
(***************************************************************************)
hasAnyData(d) == Len(d.clients) > 0 \/ Len(d.workers) > 0 \/ Len(d.tasks) > 0

\* ValidationSummary: which of its three returns renders
ValidationSummary(errors) ==
    LET errorCount == Len(SelectSeq(errors, LAMBDA e : e.severity = "error"))
        warningCount == Len(SelectSeq(errors, LAMBDA e : e.severity = "warning"))
        totalIssues == errorCount + warningCount
    IN  IF totalIssues = 0 /\ Len(errors) > 0 THEN "Validation Passed"
        ELSE IF Len(errors) = 0 THEN "null"
        ELSE "counts"

\* <ExportButton ... disabled={!hasAnyData} />: the button passes the prop on
ExportButtonDisabled == ~hasAnyData(appData)

\* processedData: every row carries the issues whose rowId equals its
\* identifier; the issue list is filtered once per table, by rowId alone
clientsWithErrors(d, errors) ==
    [i \in 1..Len(d.clients) |->
        SelectSeq(errors, LAMBDA e : e.rowId = d.clients[i].ClientID)]
workersWithErrors(d, errors) ==
    [i \in 1..Len(d.workers) |->
        SelectSeq(errors, LAMBDA e : e.rowId = d.workers[i].WorkerID)]
tasksWithErrors(d, errors) ==
    [i \in 1..Len(d.tasks) |->
        SelectSeq(errors, LAMBDA e : e.rowId = d.tasks[i].TaskID)]
processedData(d, errors) ==
    [clients |-> clientsWithErrors(d, errors),
     workers |-> workersWithErrors(d, errors),
     tasks |-> tasksWithErrors(d, errors)]

\* faulty variant: the memo misses a change of the rule list (it validates the
\* new tables against the rules of the previous render)
SetAppDataStaleRules(next) ==
    LET r == validateAllData([next EXCEPT !.rules = appData.rules]) IN
    /\ appData' = next
    /\ crashed' = validateAllData(next).threw
    /\ validationErrors' = r.errors

\* setAppData(next) followed by the render it schedules: useMemo([appData])
\* recomputes validateAllData; an exception in it unmounts the page
SetAppData(next) ==
    LET r == validateAllData(next) IN
    /\ appData' = next
    /\ crashed' = r.threw
    /\ validationErrors' = r.errors

\* RuleBuilder is rendered only while hasAnyData: unmounting it drops its
\* isLoading, and a pending handleAiRuleCreation then belongs to no instance
RuleBuilderAfter(next) ==
    IF hasAnyData(next)
    THEN UNCHANGED <<rbLoading, aiRuleRequests>>
    ELSE /\ rbLoading' = FALSE
         /\ aiRuleRequests' = [i \in 1..Len(aiRuleRequests) |->
                                  [aiRuleRequests[i] EXCEPT !.mounted = FALSE]]

(***************************************************************************)
(* parseFile: a row's id is ClientID || WorkerID || TaskID || Math.random() *)
(***************************************************************************)
RandomIds == {"0.37"}

EntityIdOf(row) ==
    IF "ClientID" \in DOMAIN row THEN row.ClientID
    ELSE IF "WorkerID" \in DOMAIN row THEN row.WorkerID
    ELSE row.TaskID

parseFile(file, rnd) ==
    [i \in 1..Len(file) |->
        [file[i] EXCEPT !.id = IF EntityIdOf(file[i]) # "" THEN EntityIdOf(file[i]) ELSE rnd]]

(***************************************************************************)
(* handleFileUpload / handleFileClear, with FileUploadCard                 *)
(***************************************************************************)
\* FileUploadCard: a click on the card opens the file dialog only while
\* fileName is null and the input is not disabled; the clear button is
\* rendered only in the hasData branch
cardOpensDialog(entityType) == ~fileName[entityType] /\ ~isLoading
hasData(entityType) == Len(appData[entityType]) > 0

\* FileUploadCard.handleCardClick opens the file dialog only while fileName
\* is null; the input is disabled while isLoading
HandleFileUploadStart(entityType, file) ==
    /\ ~crashed
    /\ ~isLoading
    /\ ~fileName[entityType]
    /\ fileName' = [fileName EXCEPT ![entityType] = TRUE]
    /\ isLoading' = TRUE
    /\ pendingUpload' = <<[entityType |-> entityType, file |-> file]>>
    /\ UNCHANGED <<appData, validationErrors, crashed, isAiLoading, aiRun, errorsToFix, ruleSuggestions,
                   correctionSuggestions, rbLoading, aiRuleRequests, now, harnessVars>>

\* faulty variant: the parsed rows are put into the tables as they were at
\* construction, not into the current ones
HandleFileUploadDoneOverInitial(rnd) ==
    /\ ~crashed
    /\ pendingUpload # <<>>
    /\ LET up == pendingUpload[1]
           next == [initialAppData EXCEPT ![up.entityType] = parseFile(up.file, rnd)]
       IN  /\ SetAppData(next)
           /\ RuleBuilderAfter(next)
    /\ isLoading' = FALSE
    /\ pendingUpload' = <<>>
    /\ UNCHANGED <<fileName, isAiLoading, aiRun, errorsToFix, ruleSuggestions, correctionSuggestions,
                   now, harnessVars>>

HandleFileUploadDone(rnd) ==
    /\ ~crashed
    /\ pendingUpload # <<>>
    /\ LET up == pendingUpload[1]
           next == [appData EXCEPT ![up.entityType] = parseFile(up.file, rnd)]
       IN  /\ SetAppData(next)
           /\ RuleBuilderAfter(next)
    /\ isLoading' = FALSE
    /\ pendingUpload' = <<>>
    /\ UNCHANGED <<fileName, isAiLoading, aiRun, errorsToFix, ruleSuggestions, correctionSuggestions,
                   now, harnessVars>>

\* parseFile rejected: toast.error, no setAppData
HandleFileUploadFailed ==
    /\ ~crashed
    /\ pendingUpload # <<>>
    /\ isLoading' = FALSE
    /\ pendingUpload' = <<>>
    /\ UNCHANGED <<appData, validationErrors, crashed, fileName, isAiLoading, aiRun, errorsToFix,
                   ruleSuggestions, correctionSuggestions, rbLoading, aiRuleRequests,
                   now, harnessVars>>

\* the clear button is rendered only while the card has data
HandleFileClear(entityType) ==
    /\ ~crashed
    /\ Len(appData[entityType]) > 0
    /\ fileName' = [fileName EXCEPT ![entityType] = FALSE]
    /\ LET next == [appData EXCEPT ![entityType] = <<>>]
       IN  /\ SetAppData(next)
           /\ RuleBuilderAfter(next)
    /\ UNCHANGED <<isLoading, pendingUpload, isAiLoading, aiRun, errorsToFix, ruleSuggestions,
                   correctionSuggestions, now, harnessVars>>

(***************************************************************************)
(* updateData: an inline edit.  The edited text is given as its            *)
(* comma-separated pieces, trimmed.                                        *)
(***************************************************************************)
\* parseInt(val, 10) || 0 on the texts of the model
ParseIntOr0(text) == IF text # "" /\ IsNumericText(text) THEN TextToNumber(text) ELSE 0

parseEditedValue(key, pieces) ==
    IF key \in {"PriorityLevel", "Duration"}
    THEN Num(ParseIntOr0(IF pieces = <<>> THEN "" ELSE pieces[1]))
    ELSE IF key \in {"RequestedTaskIDs", "Skills", "RequiredSkills"}
    THEN SelectSeq(pieces, LAMBDA item : item # "")
    ELSE IF key \in {"AvailableSlots", "PreferredPhases"}
    THEN LET nums == SelectSeq(pieces, LAMBDA item : item # "" /\ IsNumericText(item))
         IN  [k \in 1..Len(nums) |-> TextToNumber(nums[k])]
    ELSE IF key = "AttributesJSON"
    THEN [error |-> pieces # <<"{}">>]
    ELSE IF pieces = <<>> THEN "" ELSE pieces[1]

updateData(entityType, rowIndex, columnId, pieces) ==
    /\ ~crashed
    /\ rowIndex \in 1..Len(appData[entityType])
    /\ columnId \in DOMAIN appData[entityType][rowIndex]
    /\ columnId # "id"
    /\ SetAppData([appData EXCEPT ![entityType][rowIndex][columnId] =
                       parseEditedValue(columnId, pieces)])
    /\ UNCHANGED <<isLoading, pendingUpload, fileName, isAiLoading, aiRun, errorsToFix, ruleSuggestions,
                   correctionSuggestions, rbLoading, aiRuleRequests, now, harnessVars>>

(***************************************************************************)
(* handleApplyCorrection                                                   *)
(***************************************************************************)
RECURSIVE Dedup(_)
Dedup(seq) ==
    IF seq = <<>> THEN <<>>
    ELSE LET front == Dedup(SubSeq(seq, 1, Len(seq) - 1))
             last == seq[Len(seq)]
         IN  IF last \in Range(front) THEN front ELSE Append(front, last)

ArrayFields == {"RequestedTaskIDs", "Skills", "RequiredSkills", "AvailableSlots", "PreferredPhases"}

\* faulty variant: APPEND writes the new value(s) over the existing ones
correctedRowOverwriting(row, correction) ==
    IF correction.correctionType = "APPEND" /\ correction.field \in ArrayFields
    THEN [row EXCEPT ![correction.field] =
             Dedup(IF correction.isArray THEN correction.newValue
                   ELSE <<correction.newValue>>)]
    ELSE [row EXCEPT ![correction.field] = correction.newValue]

\* faulty variant: APPEND drops the new values the field already holds
correctedRowToggling(row, correction) ==
    IF correction.correctionType = "APPEND" /\ correction.field \in ArrayFields
    THEN LET newValues == IF correction.isArray THEN correction.newValue
                          ELSE <<correction.newValue>>
         IN  [row EXCEPT ![correction.field] =
                 SelectSeq(row[correction.field], LAMBDA v : v \notin Range(newValues)) \o
                 SelectSeq(Dedup(newValues), LAMBDA v : v \notin Range(row[correction.field]))]
    ELSE [row EXCEPT ![correction.field] = correction.newValue]

\* the row after the correction: APPEND on an array field unions, else overwrite
correctedRow(row, correction) ==
    IF correction.correctionType = "APPEND" /\ correction.field \in ArrayFields
    THEN [row EXCEPT ![correction.field] =
             Dedup(row[correction.field] \o
                   (IF correction.isArray THEN correction.newValue
                    ELSE <<correction.newValue>>))]
    ELSE [row EXCEPT ![correction.field] = correction.newValue]

\* prev => next of the setAppData updater; prev itself when nothing matches.
\* prev[entityType] is defined for every key of the state, rules included
applyCorrection(prev, correction) ==
    IF correction.entityType \notin DOMAIN prev THEN prev
    ELSE LET entityArray == prev[correction.entityType]
             matches == {i \in 1..Len(entityArray) : entityArray[i].id = correction.rowId}
         IN  IF matches = {} THEN prev
             ELSE LET rowIndex == CHOOSE i \in matches : \A j \in matches : i <= j
                  IN  [prev EXCEPT ![correction.entityType][rowIndex] =
                          correctedRow(entityArray[rowIndex], correction)]

\* the assistant panel is rendered only while hasAnyData
handleApplyCorrection(k) ==
    /\ ~crashed
    /\ hasAnyData(appData)
    /\ k \in 1..Len(correctionSuggestions)
    /\ LET c == correctionSuggestions[k] IN
       /\ c.entityType \in DOMAIN appData =>
             \A i \in 1..Len(appData[c.entityType]) :
                 c.field \in DOMAIN appData[c.entityType][i]
       /\ SetAppData(applyCorrection(appData, c))
    /\ UNCHANGED <<isLoading, pendingUpload, fileName, isAiLoading, aiRun, errorsToFix, ruleSuggestions,
                   correctionSuggestions, rbLoading, aiRuleRequests, now, harnessVars>>

(***************************************************************************)
(* RuleBuilder.  Its appData prop is processedData of the render whose     *)
(* handler runs; onRulesChange is page.tsx handleRulesChange.              *)
(***************************************************************************)
handleRulesChange(rules) == SetAppData([appData EXCEPT !.rules = rules])

\* Date.now(): the same millisecond as the last call, or a later one
DateNow(t) == t \in {now, now + 1} /\ t <= MaxNow /\ now' = t

RuleBuilderShown == ~crashed /\ hasAnyData(appData)

\* RuleBuilder.handleAddRule: onRulesChange([...appData.rules, rule])
RuleBuilderAddRule(rule) ==
    /\ Len(appData.rules) < MaxRules
    /\ handleRulesChange(Append(appData.rules, rule))
    /\ UNCHANGED <<isLoading, pendingUpload, fileName, isAiLoading, aiRun, errorsToFix, ruleSuggestions,
                   correctionSuggestions, rbLoading, aiRuleRequests, harnessVars>>

handleAddCoRunRule(pieces, t) ==
    LET taskIds == SelectSeq(pieces, LAMBDA item : item # "") IN
    /\ RuleBuilderShown
    /\ Len(taskIds) >= 2
    /\ DateNow(t)
    /\ RuleBuilderAddRule(CoRunRule(RuleId("corun-", t), taskIds))

handleAddSlotRestrictionRule(targetGroup, groupTag, minCommonSlots, t) ==
    /\ RuleBuilderShown
    /\ groupTag # "" /\ minCommonSlots # "" /\ ~(ParseIntOr0(minCommonSlots) < 1)
    /\ DateNow(t)
    /\ RuleBuilderAddRule(SlotRestrictionRule(RuleId("slot-", t), targetGroup, groupTag,
                                              ParseIntOr0(minCommonSlots)))

handleAddLoadLimitRule(workerGroup, maxSlotsPerPhase, t) ==
    /\ RuleBuilderShown
    /\ workerGroup # "" /\ maxSlotsPerPhase # "" /\ ~(ParseIntOr0(maxSlotsPerPhase) < 1)
    /\ DateNow(t)
    /\ RuleBuilderAddRule(LoadLimitRule(RuleId("load-", t), workerGroup,
                                        ParseIntOr0(maxSlotsPerPhase)))

handleAddPhaseWindowRule(taskId, pieces, t) ==
    LET nums == SelectSeq(pieces, LAMBDA item : item # "" /\ IsNumericText(item))
        phases == SelectSeq([k \in 1..Len(nums) |-> TextToNumber(nums[k])], LAMBDA ph : ph > 0)
    IN
    /\ RuleBuilderShown
    /\ taskId # "" /\ Len(phases) > 0
    /\ DateNow(t)
    /\ RuleBuilderAddRule(PhaseWindowRule(RuleId("phase-", t), taskId, phases))

handleRemoveRule(ruleId) ==
    /\ RuleBuilderShown
    /\ \E i \in 1..Len(appData.rules) : appData.rules[i].id = ruleId
    /\ handleRulesChange(SelectSeq(appData.rules, LAMBDA rule : rule.id # ruleId))
    /\ UNCHANGED <<isLoading, pendingUpload, fileName, isAiLoading, aiRun, errorsToFix, ruleSuggestions,
                   correctionSuggestions, rbLoading, aiRuleRequests, now, harnessVars>>

\* handleAiRuleCreation up to its await: the closure keeps this render's appData.rules
handleAiRuleCreationStart ==
    /\ RuleBuilderShown
    /\ ~rbLoading
    /\ Len(aiRuleRequests) < MaxInFlight
    /\ rbLoading' = TRUE
    /\ aiRuleRequests' = Append(aiRuleRequests, [rules |-> appData.rules, mounted |-> TRUE])
    /\ UNCHANGED <<appData, validationErrors, crashed, isLoading, pendingUpload, fileName,
                   isAiLoading, aiRun, errorsToFix, ruleSuggestions, correctionSuggestions, now,
                   harnessVars>>

RemoveAt(seq, k) == SubSeq(seq, 1, k - 1) \o SubSeq(seq, k + 1, Len(seq))

\* generateRuleDescription: pw.allowedPhases.join on an undefined allowedPhases
\* throws inside the try; the catch toasts and the rule is not added
generateRuleDescriptionThrows(rule) ==
    rule.type = "phaseWindow" /\ ~Has(rule, "allowedPhases")

\* the response parsed: onRulesChange([...appData.rules, newRule]) with the
\* appData of the closure, then setIsLoading(false)
handleAiRuleCreationDone(k, rule, t) ==
    /\ ~crashed
    /\ k \in 1..Len(aiRuleRequests)
    /\ ~generateRuleDescriptionThrows(rule)
    /\ Len(aiRuleRequests[k].rules) < MaxRules
    /\ DateNow(t)
    /\ handleRulesChange(Append(aiRuleRequests[k].rules, [rule EXCEPT !.id = RuleId("ai-", t)]))
    /\ rbLoading' = IF aiRuleRequests[k].mounted THEN FALSE ELSE rbLoading
    /\ aiRuleRequests' = RemoveAt(aiRuleRequests, k)
    /\ UNCHANGED <<isLoading, pendingUpload, fileName, isAiLoading, aiRun, errorsToFix, ruleSuggestions,
                   correctionSuggestions, harnessVars>>

\* response not ok, unparseable text, a rule generateRuleDescription throws on,
\* or network error: toast only
handleAiRuleCreationFailed(k) ==
    /\ ~crashed
    /\ k \in 1..Len(aiRuleRequests)
    /\ rbLoading' = IF aiRuleRequests[k].mounted THEN FALSE ELSE rbLoading
    /\ aiRuleRequests' = RemoveAt(aiRuleRequests, k)
    /\ UNCHANGED <<appData, validationErrors, crashed, isLoading, pendingUpload, fileName,
                   isAiLoading, aiRun, errorsToFix, ruleSuggestions, correctionSuggestions, now,
                   harnessVars>>

(***************************************************************************)
(* runAiAssistant and AiAssistant                                          *)
(***************************************************************************)
MaxErrorsToFix == 5

Prefix(seq, n) == SubSeq(seq, 1, IF Len(seq) < n THEN Len(seq) ELSE n)

\* dataContext is built before the try: w.Skills.forEach throws on a worker
\* row without Skills, after setIsAiLoading(true) and outside try/finally
dataContextThrows(d) == \E i \in 1..Len(d.workers) : "Skills" \notin DOMAIN d.workers[i]

\* faulty variant: the correction prompt takes the whole issue list
runAiAssistantStartWithAllIssues(mode) ==
    /\ ~crashed
    /\ hasAnyData(appData)
    /\ ~isAiLoading
    /\ IF dataContextThrows(appData)
       THEN /\ isAiLoading' = TRUE
            /\ UNCHANGED <<aiRun, errorsToFix, ruleSuggestions, correctionSuggestions>>
       ELSE /\ ruleSuggestions' = IF mode = "suggestions" THEN <<>> ELSE ruleSuggestions
            /\ correctionSuggestions' =
                   IF mode = "correction" THEN <<>> ELSE correctionSuggestions
            /\ IF mode = "correction" /\ Prefix(validationErrors, MaxErrorsToFix) = <<>>
               THEN UNCHANGED <<isAiLoading, aiRun, errorsToFix>>
               ELSE /\ isAiLoading' = TRUE /\ aiRun' = mode
                    /\ errorsToFix' = IF mode = "correction"
                                      THEN validationErrors ELSE <<>>
    /\ UNCHANGED <<appData, validationErrors, crashed, isLoading, pendingUpload, fileName,
                   rbLoading, aiRuleRequests, now, harnessVars>>

runAiAssistantStart(mode) ==
    /\ ~crashed
    /\ hasAnyData(appData)
    /\ ~isAiLoading
    /\ IF dataContextThrows(appData)
       THEN /\ isAiLoading' = TRUE
            /\ UNCHANGED <<aiRun, errorsToFix, ruleSuggestions, correctionSuggestions>>
       ELSE /\ ruleSuggestions' = IF mode = "suggestions" THEN <<>> ELSE ruleSuggestions
            /\ correctionSuggestions' =
                   IF mode = "correction" THEN <<>> ELSE correctionSuggestions
            /\ IF mode = "correction" /\ Prefix(validationErrors, MaxErrorsToFix) = <<>>
               THEN UNCHANGED <<isAiLoading, aiRun, errorsToFix>>
               ELSE /\ isAiLoading' = TRUE /\ aiRun' = mode
                    /\ errorsToFix' = IF mode = "correction"
                                      THEN Prefix(validationErrors, MaxErrorsToFix) ELSE <<>>
    /\ UNCHANGED <<appData, validationErrors, crashed, isLoading, pendingUpload, fileName,
                   rbLoading, aiRuleRequests, now, harnessVars>>

runAiAssistantDone(suggested, corrections) ==
    /\ ~crashed
    /\ aiRun # "none"
    /\ ruleSuggestions' = IF aiRun = "suggestions" THEN suggested ELSE ruleSuggestions
    /\ correctionSuggestions' = IF aiRun = "correction" THEN corrections ELSE correctionSuggestions
    /\ isAiLoading' = FALSE
    /\ aiRun' = "none"
    /\ errorsToFix' = <<>>
    /\ UNCHANGED <<appData, validationErrors, crashed, isLoading, pendingUpload, fileName,
                   rbLoading, aiRuleRequests, now, harnessVars>>

runAiAssistantFailed ==
    /\ ~crashed
    /\ aiRun # "none"
    /\ isAiLoading' = FALSE
    /\ aiRun' = "none"
    /\ errorsToFix' = <<>>
    /\ UNCHANGED <<appData, validationErrors, crashed, isLoading, pendingUpload, fileName,
                   ruleSuggestions, correctionSuggestions, rbLoading, aiRuleRequests, now,
                   harnessVars>>

NoRuleId == RuleId("", 0)

\* AiAssistant.handleAddSuggestedRule, then page.tsx handleAddRule:
\* setAppData(prev => ({...prev, rules: [...prev.rules, rule]}))
handleAddSuggestedRule(k, t) ==
    /\ ~crashed
    /\ hasAnyData(appData)
    /\ k \in 1..Len(ruleSuggestions)
    /\ Len(appData.rules) < MaxRules
    /\ IF ruleSuggestions[k].id = NoRuleId THEN DateNow(t) ELSE t = now /\ now' = now
    /\ LET newRule == IF ruleSuggestions[k].id = NoRuleId
                      THEN [ruleSuggestions[k] EXCEPT !.id = RuleId("ai-sugg-", t)]
                      ELSE ruleSuggestions[k]
       IN  SetAppData([appData EXCEPT !.rules = Append(appData.rules, newRule)])
    /\ UNCHANGED <<isLoading, pendingUpload, fileName, isAiLoading, aiRun, errorsToFix, ruleSuggestions,
                   correctionSuggestions, rbLoading, aiRuleRequests, harnessVars>>

(***************************************************************************)
(* Inputs of the page: files, edits, AI responses                          *)
(***************************************************************************)
AppFiles ==
    [clients |-> {<<Client("X1", Str("6"), <<"X1", "X2">>, "g1", FALSE)>>},
     workers |-> {<<Worker("X1", "Ann", <<>>, <<1>>, "g1")>>},
     tasks |-> {<<Task("X1", Str("2"), <<"s1">>, <<1>>)>>}]

EditInputs ==
    { [entityType |-> "tasks", columnId |-> "PreferredPhases", pieces |-> <<"3">>] }

\* JSON.parse(data.text) of the rule-creation response
AiRules ==
    { CoRunRule(NoRuleId, <<"X1", "X2">>),
      BlankRule(NoRuleId, "slot"),
      [BlankRule(NoRuleId, "phaseWindow") EXCEPT !.taskId = "X1"] }

SuggestionLists ==
    { << LoadLimitRule(NoRuleId, "g1", 2),
         [BlankRule(RuleId("r1", 0), "phaseWindow") EXCEPT !.taskId = "X1"] >> }

CorrectionLists ==
    { << [rowId |-> "X1", entityType |-> "clients", field |-> "PriorityLevel",
          newValue |-> Num(5), isArray |-> FALSE, correctionType |-> "REPLACE"],
         [rowId |-> "X1", entityType |-> "workers", field |-> "Skills",
          newValue |-> <<"s1">>, isArray |-> TRUE, correctionType |-> "APPEND"] >> }

(***************************************************************************)
(* Specifications                                                          *)
(***************************************************************************)
InitPage ==
    /\ appData = initialAppData
    /\ validationErrors = <<>>
    /\ crashed = FALSE
    /\ isLoading = FALSE
    /\ pendingUpload = <<>>
    /\ fileName = [e \in EntityTypes |-> FALSE]
    /\ isAiLoading = FALSE
    /\ aiRun = "none"
    /\ errorsToFix = <<>>
    /\ ruleSuggestions = <<>>
    /\ correctionSuggestions = <<>>
    /\ rbLoading = FALSE
    /\ aiRuleRequests = <<>>
    /\ now = 0

Init ==
    /\ InitPage
    /\ data = initialAppData
    /\ result = NoResult
    /\ pc = "off"

DataOps ==
    \/ \E e \in EntityTypes : \E f \in AppFiles[e] : HandleFileUploadStart(e, f)
    \/ \E rnd \in RandomIds : HandleFileUploadDone(rnd)
    \/ HandleFileUploadFailed
    \/ \E e \in EntityTypes : HandleFileClear(e)
    \/ \E ed \in EditInputs : \E i \in 1..MaxRows :
          updateData(ed.entityType, i, ed.columnId, ed.pieces)

ManualRuleOps ==
    \/ \E t \in 0..MaxNow : handleAddCoRunRule(<<"X1", "X2">>, t)
    \/ \E t \in 0..MaxNow : handleAddSlotRestrictionRule("WorkerGroup", "g1", "1", t)
    \/ \E t \in 0..MaxNow : handleAddLoadLimitRule("g1", "2", t)
    \/ \E t \in 0..MaxNow : handleAddPhaseWindowRule("X1", <<"3">>, t)
    \/ \E i \in 1..Len(appData.rules) : handleRemoveRule(appData.rules[i].id)

\* the co-run and phase-window forms and the removal
FormRuleOps ==
    \/ \E t \in 0..MaxNow : handleAddCoRunRule(<<"X1", "X2">>, t)
    \/ \E t \in 0..MaxNow : handleAddPhaseWindowRule("X1", <<"3">>, t)
    \/ \E i \in 1..Len(appData.rules) : handleRemoveRule(appData.rules[i].id)

AiRuleCreationOps ==
    \/ handleAiRuleCreationStart
    \/ \E k \in 1..Len(aiRuleRequests) : \E rule \in AiRules : \E t \in 0..MaxNow :
          handleAiRuleCreationDone(k, rule, t)
    \/ \E k \in 1..Len(aiRuleRequests) : handleAiRuleCreationFailed(k)

\* the assistant's rule suggestions; its correction runs are taken under
\* SpecCorrections and SpecAssistant
AssistantOps ==
    \/ runAiAssistantStart("suggestions")
    \/ \E s \in SuggestionLists : \E c \in CorrectionLists : runAiAssistantDone(s, c)
    \/ runAiAssistantFailed
    \/ \E k \in 1..Len(ruleSuggestions) : \E t \in 0..MaxNow : handleAddSuggestedRule(k, t)

\* the page with its tables, two of the manual rule forms and the suggested
\* rules; the other two forms are taken under SpecRuleBuilder and SpecSlots
Next == DataOps \/ FormRuleOps \/ AssistantOps

Spec == Init /\ [][Next]_vars

\* the rule list under the rule builder, its AI rule creation included
NextRuleBuilder ==
    \/ \E f \in AppFiles["tasks"] : HandleFileUploadStart("tasks", f)
    \/ \E rnd \in RandomIds : HandleFileUploadDone(rnd)
    \/ HandleFileClear("tasks")
    \/ ManualRuleOps
    \/ AiRuleCreationOps

SpecRuleBuilder == Init /\ [][NextRuleBuilder]_vars

\* worker files of one group, with and without a common slot, and edits of
\* their cells
SlotFiles ==
    { << Worker("X1", "Ann", <<"s1">>, <<1>>, "g1"), Worker("X2", "Bob", <<"s1">>, <<2>>, "g1") >>,
      << Worker("X1", "Ann", <<"s1">>, <<1>>, "g1"), Worker("X2", "Bob", <<"s1">>, <<1>>, "g1") >> }

SlotEdits ==
    { [columnId |-> "WorkerID", pieces |-> <<"X9">>],
      [columnId |-> "AvailableSlots", pieces |-> <<"1", "2">>],
      [columnId |-> "WorkerGroup", pieces |-> <<"g2">>] }

\* the workers table under inline edits and a slot-restriction rule
NextSlots ==
    \/ \E f \in SlotFiles : HandleFileUploadStart("workers", f)
    \/ \E rnd \in RandomIds : HandleFileUploadDone(rnd)
    \/ HandleFileClear("workers")
    \/ \E ed \in SlotEdits : \E i \in 1..MaxRows :
          updateData("workers", i, ed.columnId, ed.pieces)
    \/ \E t \in 0..MaxNow : handleAddSlotRestrictionRule("WorkerGroup", "g1", "1", t)
    \/ \E i \in 1..Len(appData.rules) : handleRemoveRule(appData.rules[i].id)

SpecSlots == Init /\ [][NextSlots]_vars

\* worker files, the second with one WorkerID on two rows, and the
\* corrections proposed for them
CorrectionFiles ==
    { << Worker("X1", "Ann", <<"s0", "s1">>, <<1>>, "g1"), Worker("X2", "", <<>>, <<1>>, "g1") >>,
      << Worker("X1", "Ann", <<"s0", "s1">>, <<1>>, "g1"), Worker("X1", "", <<>>, <<1>>, "g1") >> }

WorkerCorrectionLists ==
    { << [rowId |-> "X1", entityType |-> "workers", field |-> "Skills",
          newValue |-> <<"s1", "s2">>, isArray |-> TRUE, correctionType |-> "APPEND"],
         [rowId |-> "X1", entityType |-> "workers", field |-> "Skills",
          newValue |-> "s3", isArray |-> FALSE, correctionType |-> "APPEND"],
         [rowId |-> "X1", entityType |-> "workers", field |-> "Skills",
          newValue |-> <<"s4">>, isArray |-> TRUE, correctionType |-> "REPLACE"],
         [rowId |-> "X1", entityType |-> "workers", field |-> "WorkerName",
          newValue |-> "Bob", isArray |-> FALSE, correctionType |-> "APPEND"],
         [rowId |-> "X2", entityType |-> "workers", field |-> "Skills",
          newValue |-> "s1", isArray |-> FALSE, correctionType |-> "APPEND"],
         [rowId |-> "X7", entityType |-> "workers", field |-> "WorkerName",
          newValue |-> "Eve", isArray |-> FALSE, correctionType |-> "REPLACE"],
         [rowId |-> "X1", entityType |-> "priorities", field |-> "WorkerName",
          newValue |-> "Eve", isArray |-> FALSE, correctionType |-> "REPLACE"],
         [rowId |-> RuleId("load-", 0), entityType |-> "rules", field |-> "workerGroup",
          newValue |-> "g2", isArray |-> FALSE, correctionType |-> "REPLACE"] >> }

\* the workers table and a load-limit rule under the corrections of the
\* assistant
NextCorrections ==
    \/ \E f \in CorrectionFiles : HandleFileUploadStart("workers", f)
    \/ \E rnd \in RandomIds : HandleFileUploadDone(rnd)
    \/ HandleFileClear("workers")
    \/ runAiAssistantStart("correction")
    \/ \E c \in WorkerCorrectionLists : runAiAssistantDone(<<>>, c)
    \/ runAiAssistantFailed
    \/ \E k \in 1..Len(correctionSuggestions) : handleApplyCorrection(k)
    \/ \E t \in 0..MaxNow : handleAddLoadLimitRule("g1", "2", t)

SpecCorrections == Init /\ [][NextCorrections]_vars

\* a clients file whose pass lists six issues, a workers file whose pass
\* lists none, and a workers file whose skills column is headed "skills"
AssistantFiles ==
    [clients |-> {<<Client("X1", Str("6"), <<"X1", "X2">>, "g1", FALSE),
                    Client("X2", Str("0"), <<"X1", "X2">>, "g1", FALSE)>>},
     workers |-> {<<Worker("X1", "Ann", <<"s1">>, <<1>>, "g1")>>,
                  <<[id |-> "", WorkerID |-> "X1", WorkerName |-> "Ann", skills |-> <<"s1">>,
                     AvailableSlots |-> <<1>>, WorkerGroup |-> "g1"]>>},
     tasks |-> {<<Task("X1", Str("2"), <<"s1">>, <<1>>)>>}]

AssistantModes == {"analysis", "suggestions", "correction"}

\* the tables under uploads and the three runs of the assistant
NextAssistant ==
    \/ \E e \in EntityTypes : \E f \in AssistantFiles[e] : HandleFileUploadStart(e, f)
    \/ \E rnd \in RandomIds : HandleFileUploadDone(rnd)
    \/ \E e \in EntityTypes : HandleFileClear(e)
    \/ \E mode \in AssistantModes : runAiAssistantStart(mode)
    \/ \E s \in SuggestionLists : \E c \in CorrectionLists : runAiAssistantDone(s, c)
    \/ runAiAssistantFailed

SpecAssistant == Init /\ [][NextAssistant]_vars

\* the request of a run in flight resolves or rejects: fetch settles, and the
\* code after the await runs in the next task of the event loop
SpecAssistantFair ==
    /\ SpecAssistant
    /\ WF_vars(runAiAssistantFailed
               \/ \E s \in SuggestionLists : \E c \in CorrectionLists : runAiAssistantDone(s, c))

\* the validator alone, on every dataset of the harness
InitValidator == InitPage /\ InitHarness

NextValidator == ValidatePass /\ UNCHANGED appVars

SpecValidator == InitValidator /\ [][NextValidator]_vars

(***************************************************************************)
(* Properties                                                              *)
(***************************************************************************)
IsError(issue) == issue.severity = "error"

NoErrors(errors) == \A i \in 1..Len(errors) : ~IsError(errors[i])

\* how many issues of a list satisfy Test
CountIssues(errors, Test(_)) == Cardinality({i \in 1..Len(errors) : Test(errors[i])})

\* a completed pass that returned a list
PassReturned == pc = "done" /\ ~result.threw

ValidateAllDataNeverThrows == pc = "done" => ~result.threw

\* a numeric cell holds a number within [lo, hi]
IsNumberIn(v, lo, hi) == ~IsNaN(v) /\ ToNumber(v) >= lo /\ ToNumber(v) <= hi

UniqueIds(ids) == \A i, j \in 1..Len(ids) : ids[i] = ids[j] => i = j

\* C3: a pass without Error issues means every PriorityLevel is in [1,5], every
\* Duration is at least 1, identifiers are unique per table, and (both tables
\* non-empty) every required skill is some worker's skill
ZeroErrorsMeanValidData ==
    (PassReturned /\ NoErrors(result.errors)) =>
        /\ \A i \in 1..Len(data.clients) :
              IsNumberIn(data.clients[i].PriorityLevel, MinPriority, MaxPriority)
        /\ \A i \in 1..Len(data.tasks) :
              ~IsNaN(data.tasks[i].Duration) /\ ToNumber(data.tasks[i].Duration) >= MinDuration
        /\ UniqueIds([i \in 1..Len(data.clients) |-> data.clients[i].ClientID])
        /\ UniqueIds([i \in 1..Len(data.workers) |-> data.workers[i].WorkerID])
        /\ UniqueIds([i \in 1..Len(data.tasks) |-> data.tasks[i].TaskID])
        /\ (Len(data.workers) > 0 /\ Len(data.tasks) > 0) =>
              \A i \in 1..Len(data.tasks) : \A k \in 1..Len(data.tasks[i].RequiredSkills) :
                  \E w \in 1..Len(data.workers) :
                      data.tasks[i].RequiredSkills[k] \in Range(data.workers[w].Skills)

\* C4 as stated: a pass without Error issues means every worker has a
\* non-empty WorkerName and a non-empty Skills set
ZeroErrorsMeanNamedSkilledWorkers ==
    (PassReturned /\ NoErrors(result.errors)) =>
        \A i \in 1..Len(data.workers) :
            data.workers[i].WorkerName # "" /\ Len(data.workers[i].Skills) > 0

\* C4: a pass without Error issues means every worker has a non-empty
\* WorkerName; an empty Skills set is reported, but as a Warning on field
\* Skills of that worker, which a pass without Errors may still carry
ZeroErrorsMeanNamedWorkers ==
    PassReturned =>
        /\ NoErrors(result.errors) =>
              \A i \in 1..Len(data.workers) : data.workers[i].WorkerName # ""
        /\ \A i \in 1..Len(data.workers) :
              Len(data.workers[i].Skills) = 0 =>
                  \E k \in 1..Len(result.errors) :
                      /\ result.errors[k].rowId = data.workers[i].WorkerID
                      /\ result.errors[k].field = "Skills"
                      /\ result.errors[k].severity = "warning"

\* C4: a pass without Errors over a named worker that has no skill
ZeroErrorsPassWithUnskilledWorker ==
    /\ PassReturned
    /\ NoErrors(result.errors)
    /\ \E i \in 1..Len(data.workers) :
          data.workers[i].WorkerName # "" /\ Len(data.workers[i].Skills) = 0

\* the sequences holding the elements of seq in any order
Orderings(seq) ==
    {p \in [1..Len(seq) -> Range(seq)] :
        \A x \in Range(seq) :
            Cardinality({i \in 1..Len(seq) : p[i] = x})
                = Cardinality({i \in 1..Len(seq) : seq[i] = x})}

\* data with the rows of one table, or the rules, in another order
Reorderings(d) ==
    UNION {{[d EXCEPT ![table] = p] : p \in Orderings(d[table])} :
              table \in {"clients", "workers", "tasks", "rules"}}

IssueKey(issue) == <<issue.rowId, issue.field, issue.severity>>

SameIssueMultiset(a, b) ==
    \A key \in {IssueKey(a[i]) : i \in 1..Len(a)} \cup {IssueKey(b[i]) : i \in 1..Len(b)} :
        CountIssues(a, LAMBDA issue : IssueKey(issue) = key)
            = CountIssues(b, LAMBDA issue : IssueKey(issue) = key)

\* C5: reordering the rows of a table or the rules leaves the result the same
\* multiset of (rowId, field, severity), rows sharing an identifier included
ValidateAllDataIsOrderIndependent ==
    pc = "done" =>
        \A other \in Reorderings(data) :
            /\ validateAllData(other).threw = result.threw
            /\ SameIssueMultiset(validateAllData(other).errors, result.errors)

\* C6: every change of the rule list either appends one rule to the list as
\* it is at that moment, or removes one rule and keeps all the others
RulesChangeOneAtATime ==
    [][appData.rules' # appData.rules =>
          \/ /\ Len(appData.rules') = Len(appData.rules) + 1
             /\ SubSeq(appData.rules', 1, Len(appData.rules)) = appData.rules
          \/ \E k \in 1..Len(appData.rules) : appData.rules' = RemoveAt(appData.rules, k)]_vars

IsPriorityError(issue, clientId) ==
    issue.rowId = clientId /\ issue.field = "PriorityLevel" /\ IsError(issue)

\* C9: over clients whose PriorityLevel is a number, each client with a level
\* below 1 or above 5 yields exactly one Error on PriorityLevel with its
\* ClientID as rowId, and a client with a level in [1,5] yields none: the
\* Errors on PriorityLevel for a ClientID are as many as its out-of-range rows
PriorityErrorPerOutOfRangeClient ==
    (PassReturned /\ \A i \in 1..Len(data.clients) : ~IsNaN(data.clients[i].PriorityLevel)) =>
        \A clientId \in Ids :
            CountIssues(result.errors, LAMBDA issue : IsPriorityError(issue, clientId))
                = Cardinality({i \in 1..Len(data.clients) :
                      /\ data.clients[i].ClientID = clientId
                      /\ ~IsNumberIn(data.clients[i].PriorityLevel, MinPriority, MaxPriority)})

\* C9: one client at the upper limit and one above it: one Error, for the latter
PriorityErrorOnlyAboveLimit ==
    /\ PassReturned
    /\ Len(data.clients) = 2
    /\ data.clients[1].ClientID = "X1" /\ data.clients[1].PriorityLevel = Str("5")
    /\ data.clients[2].ClientID = "X2" /\ data.clients[2].PriorityLevel = Str("6")
    /\ CountIssues(result.errors, LAMBDA issue : IsPriorityError(issue, "X1")) = 0
    /\ CountIssues(result.errors, LAMBDA issue : IsPriorityError(issue, "X2")) = 1

Occurrences(ids, id) == Cardinality({i \in 1..Len(ids) : ids[i] = id})

DuplicateErrors(errors, fld, id) ==
    CountIssues(errors, LAMBDA issue : issue.field = fld /\ issue.rowId = id /\ IsError(issue))

\* C10: per table, an identifier occurring n >= 1 times yields n - 1 Duplicate-ID
\* Errors with that identifier as rowId (none for the first occurrence, one for
\* each later one), whatever the other two tables hold
DuplicateErrorPerLaterOccurrence ==
    PassReturned =>
        \A id \in Ids :
            LET expected(ids) == IF Occurrences(ids, id) = 0 THEN 0 ELSE Occurrences(ids, id) - 1
            IN  /\ DuplicateErrors(result.errors, "ClientID", id)
                      = expected([i \in 1..Len(data.clients) |-> data.clients[i].ClientID])
                /\ DuplicateErrors(result.errors, "WorkerID", id)
                      = expected([i \in 1..Len(data.workers) |-> data.workers[i].WorkerID])
                /\ DuplicateErrors(result.errors, "TaskID", id)
                      = expected([i \in 1..Len(data.tasks) |-> data.tasks[i].TaskID])

\* C10: an identifier twice among the clients and once among the workers: one
\* Duplicate-ID Error, on ClientID
DuplicateClientIdSharedWithWorker ==
    /\ PassReturned
    /\ Len(data.clients) = 2 /\ Len(data.workers) = 1
    /\ data.clients[1].ClientID = "X1" /\ data.clients[2].ClientID = "X1"
    /\ data.workers[1].WorkerID = "X1"
    /\ DuplicateErrors(result.errors, "ClientID", "X1") = 1
    /\ DuplicateErrors(result.errors, "WorkerID", "X1") = 0

IsCoverageError(issue, taskId, skill) ==
    /\ issue.rowId = taskId /\ issue.field = "RequiredSkills" /\ IsError(issue)
    /\ issue.message = <<"No worker has the required skill: \"", skill, "\".">>

SomeWorkerHas(workers, skill) == \E w \in 1..Len(workers) : skill \in Range(workers[w].Skills)

\* the entries of RequiredSkills naming skill, over the task rows with taskId
RequiredEntries(tasks, taskId, skill) ==
    UNION {{<<i, k>> : k \in {j \in 1..Len(tasks[i].RequiredSkills) :
                                  tasks[i].RequiredSkills[j] = skill}} :
              i \in {n \in 1..Len(tasks) : tasks[n].TaskID = taskId}}

\* C11: with tasks and workers both present, every entry of a task's
\* RequiredSkills naming a skill no worker has yields exactly one Error on
\* RequiredSkills with that TaskID as rowId; with either table empty, and for
\* a skill some worker has (so in the pass after such a worker was added),
\* there is no coverage Error
CoverageErrorPerUncoveredSkill ==
    PassReturned =>
        /\ \A taskId \in Ids : \A skill \in SkillTags :
              CountIssues(result.errors, LAMBDA issue : IsCoverageError(issue, taskId, skill))
                  = IF Len(data.workers) = 0 \/ Len(data.tasks) = 0
                       \/ SomeWorkerHas(data.workers, skill)
                    THEN 0
                    ELSE Cardinality(RequiredEntries(data.tasks, taskId, skill))
        /\ \A k \in 1..Len(result.errors) :
              result.errors[k].field = "RequiredSkills" =>
                  \E taskId \in Ids : \E skill \in SkillTags :
                      IsCoverageError(result.errors[k], taskId, skill)

\* C11: a task requires s1 and s2, a worker without skills and a worker with
\* s1 are present: the only coverage Error is the one for s2
CoverageErrorOnlyForMissingSkill ==
    /\ PassReturned
    /\ Len(data.tasks) = 1 /\ data.tasks[1].RequiredSkills = <<"s1", "s2">>
    /\ Len(data.workers) = 2
    /\ data.workers[1].Skills = <<>> /\ data.workers[2].Skills = <<"s1">>
    /\ CountIssues(result.errors,
                   LAMBDA issue : IsCoverageError(issue, data.tasks[1].TaskID, "s1")) = 0
    /\ CountIssues(result.errors,
                   LAMBDA issue : IsCoverageError(issue, data.tasks[1].TaskID, "s2")) = 1

\* the task lists of the co-run rules of a rule list that carry one
CoRunLists(rules) ==
    {coRunTaskIds(rules[r]) :
        r \in {n \in 1..Len(rules) : rules[n].type = "coRun" /\ coRunTaskIdsPresent(rules[n])}}

RequestsSomeNotAll(client, taskIds) ==
    /\ \E k \in 1..Len(taskIds) : taskIds[k] \in Range(client.RequestedTaskIDs)
    /\ \E k \in 1..Len(taskIds) : taskIds[k] \notin Range(client.RequestedTaskIDs)

IsCoRunWarning(issue, clientId, taskIds) ==
    /\ issue.rowId = clientId /\ issue.field = "RequestedTaskIDs" /\ issue.severity = "warning"
    /\ issue.message =
          <<"Rule Violation: Client requested some, but not all, required co-run tasks: ">>
              \o Join([k \in 1..Len(taskIds) |-> <<taskIds[k]>>]) \o <<".">>

\* C12: each co-run rule yields, for each client, one Warning on
\* RequestedTaskIDs with that ClientID as rowId exactly when the client
\* requests at least one but not all of the rule's tasks: the co-run Warnings
\* for a ClientID and a task list are as many as the pairs of a rule with that
\* list and a client row with that ClientID requesting some but not all of it
CoRunWarningPerPartialRequest ==
    PassReturned =>
        \A clientId \in Ids : \A taskIds \in CoRunLists(data.rules) :
            CountIssues(result.errors, LAMBDA issue : IsCoRunWarning(issue, clientId, taskIds))
                = Cardinality(
                      {<<r, c>> \in (1..Len(data.rules)) \X (1..Len(data.clients)) :
                          /\ data.rules[r].type = "coRun" /\ coRunTaskIdsPresent(data.rules[r])
                          /\ coRunTaskIds(data.rules[r]) = taskIds
                          /\ data.clients[c].ClientID = clientId
                          /\ RequestsSomeNotAll(data.clients[c], taskIds)})

\* C12: under one rule over X1 and X2, the client requesting only X1 is warned
\* and the client requesting both is not
CoRunWarningOnlyForPartialRequest ==
    /\ PassReturned
    /\ Len(data.rules) = 1 /\ data.rules[1].type = "coRun"
    /\ data.rules[1].taskIds = <<"X1", "X2">>
    /\ Len(data.clients) = 2
    /\ data.clients[1].ClientID = "X1" /\ data.clients[1].RequestedTaskIDs = <<"X1">>
    /\ data.clients[2].ClientID = "X2" /\ data.clients[2].RequestedTaskIDs = <<"X1", "X2">>
    /\ CountIssues(result.errors, LAMBDA issue : IsCoRunWarning(issue, "X1", <<"X1", "X2">>)) = 1
    /\ CountIssues(result.errors, LAMBDA issue : IsCoRunWarning(issue, "X2", <<"X1", "X2">>)) = 0

\* the task a rule's taskId names: the row with that TaskID (the first one,
\* should several rows share it), as a set of at most one row
TaskNamed(tasks, taskId) ==
    {tasks[i] : i \in {n \in 1..Len(tasks) :
                          /\ tasks[n].TaskID = taskId
                          /\ \A m \in 1..(n - 1) : tasks[m].TaskID # taskId}}

IsPhaseError(issue, taskId) ==
    issue.rowId = taskId /\ issue.field = "PreferredPhases" /\ IsError(issue)

\* C13: a phaseWindow rule whose taskId names a task with a non-empty
\* PreferredPhases yields one Error on PreferredPhases with that TaskID as
\* rowId exactly when PreferredPhases and allowedPhases share no phase; a rule
\* whose task is not found or prefers no phase yields nothing: the Errors on
\* PreferredPhases for a TaskID are as many as the rules in conflict with it
PhaseErrorPerDisjointWindow ==
    PassReturned =>
        \A taskId \in Ids \cup {"X3"} :
            CountIssues(result.errors, LAMBDA issue : IsPhaseError(issue, taskId))
                = Cardinality(
                      {r \in 1..Len(data.rules) :
                          /\ data.rules[r].type = "phaseWindow"
                          /\ data.rules[r].taskId = taskId
                          /\ \E task \in TaskNamed(data.tasks, taskId) :
                                /\ Len(task.PreferredPhases) > 0
                                /\ Range(task.PreferredPhases)
                                       \cap Range(data.rules[r].allowedPhases) = {}})

\* C13: X1 prefers phases 1 and 2 and its window allows 2 and 3: no Error;
\* X2 prefers phase 1 and its window allows only 3: one Error
PhaseErrorOnlyForDisjointWindow ==
    /\ PassReturned
    /\ Len(data.tasks) = 2 /\ Len(data.rules) = 2
    /\ data.tasks[1].TaskID = "X1" /\ data.tasks[1].PreferredPhases = <<1, 2>>
    /\ data.tasks[2].TaskID = "X2" /\ data.tasks[2].PreferredPhases = <<1>>
    /\ {data.rules[1].taskId, data.rules[2].taskId} = {"X1", "X2"}
    /\ \A r \in 1..2 : data.rules[r].type = "phaseWindow" /\ Has(data.rules[r], "allowedPhases")
    /\ CountIssues(result.errors, LAMBDA issue : IsPhaseError(issue, "X1")) = 0
    /\ CountIssues(result.errors, LAMBDA issue : IsPhaseError(issue, "X2")) = 1

\* the members of the group a slot-restriction rule names, as <<table, index>>
GroupMembers(rule, d) ==
    IF rule.targetGroup = "ClientGroup"
    THEN {<<"clients", i>> : i \in {n \in 1..Len(d.clients) : d.clients[n].GroupTag = rule.groupTag}}
    ELSE {<<"workers", i>> : i \in {n \in 1..Len(d.workers) : d.workers[n].WorkerGroup = rule.groupTag}}

\* the entity identifier of a member: its ClientID or WorkerID
MemberIdentifier(member, d) ==
    IF member[1] = "clients" THEN d.clients[member[2]].ClientID
    ELSE d.workers[member[2]].WorkerID

MemberSlots(member, d) ==
    IF member[1] = "clients" THEN {} ELSE Range(d.workers[member[2]].AvailableSlots)

\* the slots every member of the group has
SlotsInCommon(rule, d) ==
    {slot \in UNION {MemberSlots(member, d) : member \in GroupMembers(rule, d)} :
        \A member \in GroupMembers(rule, d) : slot \in MemberSlots(member, d)}

IsSlotRule(rule) ==
    rule.type = "slotRestriction" /\ rule.groupTag # "" /\ rule.minCommonSlots > 0

SlotRuleViolated(rule, d) ==
    /\ IsSlotRule(rule)
    /\ Cardinality(GroupMembers(rule, d)) >= 2
    /\ Cardinality(SlotsInCommon(rule, d)) < rule.minCommonSlots

IsSlotWarning(issue, rowId) ==
    issue.rowId = rowId /\ issue.field = "AvailableSlots" /\ issue.severity = "warning"

\* the Warnings on AvailableSlots of an issue list are one per violated rule
\* and member of its group, each with the member's entity identifier as rowId
SlotWarningsNameMembers(d, errors) ==
    /\ \A k \in 1..Len(errors) :
          errors[k].field = "AvailableSlots" =>
              \E r \in 1..Len(d.rules) : \E member \in GroupMembers(d.rules[r], d) :
                  /\ SlotRuleViolated(d.rules[r], d)
                  /\ IsSlotWarning(errors[k], MemberIdentifier(member, d))
    /\ \A r \in 1..Len(d.rules) : \A member \in GroupMembers(d.rules[r], d) :
          SlotRuleViolated(d.rules[r], d) =>
              CountIssues(errors, LAMBDA issue :
                              IsSlotWarning(issue, MemberIdentifier(member, d))) >= 1

\* C14: a slot-restriction rule whose group has at least 2 members with fewer
\* common slots than minCommonSlots yields a Warning on AvailableSlots for
\* every member, its rowId that member's WorkerID or ClientID; with enough
\* common slots, or fewer than 2 members, it yields none
SlotWarningForEveryMember ==
    ~crashed => SlotWarningsNameMembers(appData, validationErrors)

\* a Warning of the slot-restriction check about the group with this tag
IsSlotWarningOfGroup(issue, groupTag) ==
    /\ issue.field = "AvailableSlots" /\ issue.severity = "warning"
    /\ issue.message[1] = "Rule Violation: Group '" /\ issue.message[2] = groupTag

\* C15: a group of one member, or of none, never gets a slot-restriction
\* Warning, whatever minCommonSlots and the member's AvailableSlots are
LoneMemberNeverWarned ==
    PassReturned =>
        \A groupTag \in {"g1", "g2", "g3"} :
            (\A r \in 1..Len(data.rules) :
                (IsSlotRule(data.rules[r]) /\ data.rules[r].groupTag = groupTag) =>
                    Cardinality(GroupMembers(data.rules[r], data)) <= 1)
            => CountIssues(result.errors,
                           LAMBDA issue : IsSlotWarningOfGroup(issue, groupTag)) = 0

\* C15: the only member of g2 has no slot at all and the rule asks for 2
\* common slots of g2: no Warning on AvailableSlots
LoneMemberWithoutSlotsNotWarned ==
    /\ PassReturned
    /\ Len(data.workers) = 1
    /\ data.workers[1].WorkerGroup = "g2" /\ data.workers[1].AvailableSlots = <<>>
    /\ \E r \in 1..Len(data.rules) :
          /\ IsSlotRule(data.rules[r]) /\ data.rules[r].targetGroup = "WorkerGroup"
          /\ data.rules[r].groupTag = "g2" /\ data.rules[r].minCommonSlots = 2
    /\ CountIssues(result.errors, LAMBDA issue : issue.field = "AvailableSlots") = 0

\* the values a correction brings: a scalar newValue counts as one value
NewValuesOf(c) == IF c.isArray THEN Range(c.newValue) ELSE {c.newValue}

\* the rows a correction can address, and the one it writes
TargetRows(c, d) ==
    IF c.entityType \notin DOMAIN d THEN {}
    ELSE {i \in 1..Len(d[c.entityType]) : d[c.entityType][i].id = c.rowId}

TargetRow(c, d) == CHOOSE i \in TargetRows(c, d) : \A j \in TargetRows(c, d) : i <= j

NoDuplicates(seq) == Cardinality(Range(seq)) = Len(seq)

\* everything but the corrected cell is as before
OtherCellsKept(c, prev, next) ==
    /\ \A e \in DOMAIN prev \ {c.entityType} : next[e] = prev[e]
    /\ Len(next[c.entityType]) = Len(prev[c.entityType])
    /\ \A i \in 1..Len(prev[c.entityType]) :
          /\ DOMAIN next[c.entityType][i] = DOMAIN prev[c.entityType][i]
          /\ \A f \in DOMAIN prev[c.entityType][i] :
                (i # TargetRow(c, prev) \/ f # c.field) =>
                    next[c.entityType][i][f] = prev[c.entityType][i][f]

\* the corrected cell: the union without duplicates for an APPEND on an
\* array field, newValue otherwise
CellWritten(c, old, new) ==
    IF c.correctionType = "APPEND" /\ c.field \in ArrayFields
    THEN Range(new) = Range(old) \cup NewValuesOf(c) /\ NoDuplicates(new)
    ELSE new = c.newValue

\* the values of a cell read as a set
ValuesOf(field, value) == IF field \in ArrayFields THEN Range(value) ELSE {value}

\* the corrected cell when every APPEND unions into the existing value
CellUnioned(c, old, new) ==
    IF c.correctionType = "APPEND"
    THEN ValuesOf(c.field, new) = ValuesOf(c.field, old) \cup NewValuesOf(c)
    ELSE new = c.newValue

AppendIsIdempotent ==
    [][\A k \in 1..Len(correctionSuggestions) :
          LET c == correctionSuggestions[k] IN
          (/\ handleApplyCorrection(k)
           /\ c.correctionType = "APPEND" /\ c.field \in ArrayFields
           /\ TargetRows(c, appData) # {}) =>
              Range(applyCorrection(appData', c)[c.entityType][TargetRow(c, appData)][c.field])
                  = Range(appData'[c.entityType][TargetRow(c, appData)][c.field])]_vars

\* C17: the Skills of X1 hold every value of the array APPEND, which can be
\* applied once more
AppendAppliedOnce ==
    /\ Len(appData.workers) > 0
    /\ \E k \in 1..Len(correctionSuggestions) :
          LET c == correctionSuggestions[k] IN
          /\ c.correctionType = "APPEND" /\ c.isArray
          /\ appData.workers[1].id = c.rowId
          /\ appData.workers[1].Skills = <<"s4", "s1", "s2">>

\* the issues of the rules from the i-th on, rule after rule
RECURSIVE IssuesOfRulesFrom(_, _)
IssuesOfRulesFrom(d, i) ==
    IF i > Len(d.rules) THEN <<>>
    ELSE ruleIssues(d.rules[i], d) \o IssuesOfRulesFrom(d, i + 1)

\* the six parts of the issue list, in the order of the calls
IssueListParts(d) ==
    << validateClients(d.clients, d.tasks), validateWorkers(d.workers),
       validateTasks(d.tasks), validateSkillCoverage(d.tasks, d.workers),
       validateDuplicateIds(d), IssuesOfRulesFrom(d, 1) >>

RECURSIVE IsSubsequence(_, _)
IsSubsequence(a, b) ==
    IF a = <<>> THEN TRUE
    ELSE IF b = <<>> THEN FALSE
    ELSE IF Head(a) = Head(b) THEN IsSubsequence(Tail(a), Tail(b))
    ELSE IsSubsequence(a, Tail(b))

\* the rows a rule's checks walk through, by the key its issues carry
RuleTargetKeys(rule, d) ==
    IF rule.type = "coRun" THEN [i \in 1..Len(d.clients) |-> d.clients[i].ClientID]
    ELSE IF rule.type = "slotRestriction" /\ rule.targetGroup = "ClientGroup"
    THEN [i \in 1..Len(d.clients) |-> d.clients[i].id]
    ELSE IF rule.type = "slotRestriction"
    THEN [i \in 1..Len(d.workers) |-> d.workers[i].id]
    ELSE [i \in 1..Len(d.tasks) |-> d.tasks[i].TaskID]

\* C18: the issue list of a pass is the client checks, the worker checks, the
\* task checks, skill coverage, duplicate IDs and then the rule checks rule
\* after rule, one after the other with nothing dropped or moved; its length
\* is the sum of the parts' lengths, and each rule's issues follow the order
\* of the rows of the table it walks
IssueListIsConcatenationOfChecks ==
    PassReturned =>
        LET parts == IssueListParts(data) IN
        /\ result.errors = parts[1] \o parts[2] \o parts[3] \o parts[4] \o parts[5] \o parts[6]
        /\ Len(result.errors) = Len(parts[1]) + Len(parts[2]) + Len(parts[3])
                                    + Len(parts[4]) + Len(parts[5]) + Len(parts[6])
        /\ \A r \in 1..Len(data.rules) :
              LET issues == ruleIssues(data.rules[r], data) IN
              IsSubsequence([k \in 1..Len(issues) |-> issues[k].rowId],
                            RuleTargetKeys(data.rules[r], data))

\* C18: a pass with issues of the client checks followed by issues of two
\* rules, the same issue being listed once for each rule
SameIssueListedForEachRule ==
    /\ PassReturned
    /\ Len(IssueListParts(data)[1]) > 0
    /\ Len(data.rules) = 2
    /\ ruleIssues(data.rules[1], data) # <<>>
    /\ ruleIssues(data.rules[1], data) = ruleIssues(data.rules[2], data)
    /\ SubSeq(result.errors, 1, Len(IssueListParts(data)[1])) = IssueListParts(data)[1]
    /\ Len(result.errors) >= Len(IssueListParts(data)[1])
                                 + 2 * Len(ruleIssues(data.rules[1], data))

\* C19: the export button is disabled while the issue list of the page holds
\* an Error, and enabled when a table is loaded and the list holds no Error
ExportBlockedByErrors ==
    ~crashed =>
        /\ ~NoErrors(validationErrors) => ExportButtonDisabled
        /\ (hasAnyData(appData) /\ NoErrors(validationErrors)) => ~ExportButtonDisabled

\* the tables other than this one, and the rule list, are as before
OtherTablesKept(entityType) ==
    /\ appData'.rules = appData.rules
    /\ \A e \in EntityTypes \ {entityType} : appData'[e] = appData[e]

\* the rows of the table are the rows of the file, each with its id
IsParsedFile(rows, file) ==
    /\ Len(rows) = Len(file)
    /\ \A i \in 1..Len(file) :
          /\ DOMAIN rows[i] = DOMAIN file[i]
          /\ \A f \in DOMAIN file[i] \ {"id"} : rows[i][f] = file[i][f]
          /\ IF EntityIdOf(file[i]) # "" THEN rows[i].id = EntityIdOf(file[i])
             ELSE rows[i].id \in RandomIds

\* C20: a resolved upload puts the parsed rows in place of that table and
\* keeps the other two tables and the rule list; a rejected parse keeps all
\* of them; a clear empties that table and keeps the others and the rule list
UploadAndClearTouchOneTable ==
    [][/\ \A rnd \in RandomIds :
             HandleFileUploadDone(rnd) =>
                 /\ IsParsedFile(appData'[pendingUpload[1].entityType], pendingUpload[1].file)
                 /\ OtherTablesKept(pendingUpload[1].entityType)
       /\ HandleFileUploadFailed => appData' = appData
       /\ \A e \in EntityTypes :
             HandleFileClear(e) => (appData'[e] = <<>> /\ OtherTablesKept(e))]_vars

\* C20: the three tables hold their files next to a rule, each upload having
\* kept what was there
ThreeTablesLoadedBesideRules ==
    /\ ~crashed /\ ~isLoading
    /\ \A e \in EntityTypes : fileName[e] /\ Len(appData[e]) > 0
    /\ Len(appData.rules) > 0

\* the first n elements of a sequence, all of it when it is shorter
FirstIssues(seq, n) == [i \in 1..(IF Len(seq) < n THEN Len(seq) ELSE n) |-> seq[i]]

\* C21: the request of a correction run carries the first min(5, n) issues
\* of the current issue list, in list order; with an empty issue list no
\* request is sent, and with a non-empty one the request is sent unless the
\* run throws while it builds its data context
CorrectionRunTakesIssuePrefix ==
    [][runAiAssistantStart("correction") =>
          /\ validationErrors = <<>> => (aiRun' = "none" /\ errorsToFix' = <<>>)
          /\ aiRun' = "correction" =>
                 /\ validationErrors # <<>>
                 /\ errorsToFix' = FirstIssues(validationErrors, MaxErrorsToFix)
                 /\ Len(errorsToFix') <= MaxErrorsToFix
          /\ (validationErrors # <<>> /\ ~dataContextThrows(appData)) =>
                 aiRun' = "correction"]_vars

\* C21: a correction run is in flight with five of the six listed issues
CorrectionRunWithFiveOfSix ==
    /\ aiRun = "correction"
    /\ Len(validationErrors) = 6
    /\ Len(errorsToFix) = 5
    /\ errorsToFix = SubSeq(validationErrors, 1, 5)

\* an issue about this entry of the requests of this client
IsRequestIssue(issue, clientId, reqTaskId) ==
    /\ issue.rowId = clientId /\ issue.field = "RequestedTaskIDs"
    /\ issue.message = <<"Requested TaskID \"", reqTaskId, "\" does not exist.">>

\* the entries of RequestedTaskIDs, in the rows with this ClientID, that hold
\* this non-empty text while no task has it as TaskID
DanglingEntries(d, clientId, reqTaskId) ==
    {e \in UNION {{<<c, k>> : k \in 1..Len(d.clients[c].RequestedTaskIDs)} :
                     c \in 1..Len(d.clients)} :
        /\ d.clients[e[1]].ClientID = clientId
        /\ d.clients[e[1]].RequestedTaskIDs[e[2]] = reqTaskId
        /\ reqTaskId # ""
        /\ \A t \in 1..Len(d.tasks) : d.tasks[t].TaskID # reqTaskId}

\* C22: every non-empty entry of RequestedTaskIDs that is no TaskID yields one
\* Warning on the client's RequestedTaskIDs, empty entries and entries naming
\* a task yield nothing, and no issue on RequestedTaskIDs is an Error
DanglingRequestIsOneWarning ==
    PassReturned =>
        /\ \A clientId \in Ids : \A reqTaskId \in {"", "X1", "X2", "X3"} :
              /\ CountIssues(result.errors,
                     LAMBDA issue : IsRequestIssue(issue, clientId, reqTaskId)
                                        /\ issue.severity = "warning")
                    = Cardinality(DanglingEntries(data, clientId, reqTaskId))
              /\ CountIssues(result.errors,
                     LAMBDA issue : IsRequestIssue(issue, clientId, reqTaskId)
                                        /\ issue.severity # "warning") = 0
        /\ CountIssues(result.errors,
               LAMBDA issue : issue.field = "RequestedTaskIDs" /\ IsError(issue)) = 0

\* C22: a client requesting an empty entry and the unknown X3 next to a client
\* requesting the task X1: one Warning in all, and a pass without Errors
OnlyUnknownRequestWarned ==
    /\ PassReturned
    /\ Len(data.tasks) = 1 /\ data.tasks[1].TaskID = "X1"
    /\ Len(data.clients) = 2
    /\ data.clients[1].RequestedTaskIDs = <<"", "X3">>
    /\ data.clients[2].RequestedTaskIDs = <<"X1">>
    /\ Len(result.errors) = 1
    /\ IsRequestIssue(result.errors[1], data.clients[1].ClientID, "X3")
    /\ result.errors[1].severity = "warning"
    /\ NoErrors(result.errors)

\* the dataset without its r-th rule
WithoutRule(d, r) ==
    [d EXCEPT !.rules = SubSeq(d.rules, 1, r - 1) \o SubSeq(d.rules, r + 1, Len(d.rules))]

IsInertRule(rule) == rule.type \in {"loadLimit", "patternMatch"}

\* C23: a load-limit or pattern-match rule contributes no issue: the outcome
\* of the pass is the outcome of the pass over the same data without that rule
InertRulesAddNoIssue ==
    pc = "done" =>
        \A r \in 1..Len(data.rules) :
            IsInertRule(data.rules[r]) => validateAllData(WithoutRule(data, r)) = result

\* C23: a pass over a load-limit rule whose group has no worker, beside a
\* co-run rule that reports: the list holds the co-run Warning only
LoadLimitBesideReportingRule ==
    /\ PassReturned
    /\ Len(data.rules) = 2
    /\ data.rules[1].type = "loadLimit" /\ data.rules[1].workerGroup = "g9"
    /\ data.rules[2].type = "coRun"
    /\ Len(result.errors) = 1
    /\ IsCoRunWarning(result.errors[1], "X1", <<"X1", "X2">>)

\* C24: the rules of the active list have pairwise different ids
RuleIdsAreUnique ==
    ~crashed => UniqueIds([i \in 1..Len(appData.rules) |-> appData.rules[i].id])

\* C25: with a table loaded and a pass that found no issue, the validation
\* summary shows 'Validation Passed'
NoIssuesShowValidationPassed ==
    (~crashed /\ hasAnyData(appData) /\ validationErrors = <<>>) =>
        ValidationSummary(validationErrors) = "Validation Passed"

\* the identifier column of each table
IdentifierOf(entityType, row) ==
    IF entityType = "clients" THEN row.ClientID
    ELSE IF entityType = "workers" THEN row.WorkerID
    ELSE row.TaskID

\* C26: every row's id, the key by which corrections find the row and which
\* slot-restriction Warnings carry, is the row's ClientID, WorkerID or TaskID
RowIdIsEntityIdentifier ==
    ~crashed =>
        \A e \in EntityTypes : \A i \in 1..Len(appData[e]) :
            appData[e][i].id = IdentifierOf(e, appData[e][i])

\* the fields of a row that differ between two versions of it
ChangedFields(old, new) == {f \in DOMAIN old : new[f] # old[f]}

\* C27: a correction changes at most one field of the first row with id =
\* rowId in the entity table it names and leaves the other rows, the other
\* tables and the rule list as they are; when no row matches or entityType
\* names no entity table, nothing changes
CorrectionTouchesOneEntityRow ==
    [][\A k \in 1..Len(correctionSuggestions) :
          handleApplyCorrection(k) =>
              LET c == correctionSuggestions[k] IN
              IF c.entityType \in EntityTypes /\ TargetRows(c, appData) # {}
              THEN /\ appData'.rules = appData.rules
                   /\ \A e \in EntityTypes \ {c.entityType} : appData'[e] = appData[e]
                   /\ Len(appData'[c.entityType]) = Len(appData[c.entityType])
                   /\ \A i \in 1..Len(appData[c.entityType]) :
                         IF i = TargetRow(c, appData)
                         THEN ChangedFields(appData[c.entityType][i], appData'[c.entityType][i])
                                  \subseteq {c.field}
                         ELSE appData'[c.entityType][i] = appData[c.entityType][i]
              ELSE appData' = appData]_vars

\* the fields on which the checks of each table raise issues
IssueFields ==
    [clients |-> {"ClientID", "PriorityLevel", "RequestedTaskIDs", "AttributesJSON"},
     workers |-> {"WorkerID", "WorkerName", "Skills"},
     tasks |-> {"TaskID", "Duration", "RequiredSkills", "PreferredPhases"}]

\* C28: every issue a row carries was raised for the row's own table: an
\* issue on a field that only another table's checks report is never attached
AttachedIssuesAreOfOwnTable ==
    ~crashed =>
        \A entityType \in EntityTypes :
            LET attached == processedData(appData, validationErrors)[entityType]
            IN  \A i \in 1..Len(attached) : \A k \in 1..Len(attached[i]) :
                    \A other \in EntityTypes \ {entityType} :
                        attached[i][k].field \notin IssueFields[other]

\* C29: whenever no parse is running, every upload card offers a new upload
\* or its clear button, also after a parse that failed
CardOffersUploadOrClear ==
    (~crashed /\ ~isLoading) =>
        \A entityType \in EntityTypes :
            cardOpensDialog(entityType) \/ hasData(entityType)

\* C30: the AI loading flag, once set by a run of the assistant, is reset
\* to false, whichever way the run ends
AiLoadingIsReset == isAiLoading ~> ~isAiLoading

====
